---------------------------- MODULE Spec2Model ----------------------------
(* A model of the view-state store of the flow map (core/FlowMap.state.ts): *)
(* the reducer, its action vocabulary and the initial state; and of what    *)
(* the view (core/FlowMap.tsx) does with it: the viewport fit effect, the   *)
(* click handler, the highlight resolver, the hover coordinator with its    *)
(* two debounced functions, and the animation clock.                        *)
(*                                                                          *)
(* Conventions.                                                             *)
(*  - An optional value (T | undefined) is a sequence of length at most 1:  *)
(*    Undefined is << >> and Some(v) is << v >>.                            *)
(*  - A number that the code multiplies or divides by 1.1 (viewport.zoom)   *)
(*    is an exact fraction [n, d] in lowest terms with d > 0.  IEEE-754     *)
(*    rounding is monotone and leaves 0 and 20 fixed, so every comparison   *)
(*    with the zoom bounds made here agrees with the one made on doubles.   *)
(*  - Of the viewport only zoom, bearing, pitch and the transition duration *)
(*    are kept; width, height, longitude, latitude, the min/max props and   *)
(*    altitude are copied by the reducer exactly like bearing and pitch.    *)
EXTENDS Integers, Sequences, FiniteSets, TLC

VARIABLES
  state,      \* the State held by useReducer
  nSettings,  \* number of display-setting actions dispatched so far (bounded)
  dataset,    \* the locations and flows the props carry: undefined while loading
  resolved,   \* the last call of getHighlightForZoom: its inputs and its result
  highlightDebounced,       \* the pending call of highlightDebounced, if any
  showTooltipDebounced,     \* the pending call of showTooltipDebounced, if any
  requestAnimationFrameRef, \* requestAnimationFrameRef.current
  animationFrames,          \* the frame requests of the window not yet run or cancelled
  lastAnimationFrame,       \* the handle the window gave to its latest frame request
  time,                     \* the time of useState(0), read by the layer
  mounted                   \* whether the component is mounted

\* the two debounced functions of the view
debounceVars == <<highlightDebounced, showTooltipDebounced>>

\* the animation clock of the view
clockVars == <<requestAnimationFrameRef, animationFrames, lastAnimationFrame, time, mounted>>

vars == <<state, nSettings, dataset, resolved, debounceVars, clockVars>>

-----------------------------------------------------------------------------
(* Bounds of the model *)

\* zoom-button actions are explored while the zoom stays within this many
\* factors of 1.1 of a whole number
MaxZoomSteps == 1
\* display-setting actions dispatched along one run
MaxSettings == 1
\* the zoom-button runs start from the whole zooms this far outside the zoom range
ZoomMargin == 5
\* milliseconds that pass in one step of time
TickMs == 250
\* frame requests made along one run
MaxFrames == 6

-----------------------------------------------------------------------------
(* Optional values *)

Undefined == << >>

Some(v) == << v >>

IsDefined(o) == o # Undefined

-----------------------------------------------------------------------------
(* Exact fractions for viewport.zoom *)

Abs(i) == IF i < 0 THEN -i ELSE i

RECURSIVE GCD(_, _)
GCD(a, b) == IF b = 0 THEN a ELSE GCD(b, a % b)

\* the fraction n/d (d > 0) in lowest terms
Frac(n, d) == LET g == GCD(Abs(n), d) IN [n |-> n \div g, d |-> d \div g]

Num(i) == [n |-> i, d |-> 1]

FracLE(x, y) == x.n * y.d <= y.n * x.d

FracLT(x, y) == x.n * y.d < y.n * x.d

\* Math.min and Math.max on two numbers
MathMin(x, y) == IF FracLE(x, y) THEN x ELSE y

MathMax(x, y) == IF FracLE(x, y) THEN y ELSE x

\* z * 1.1 and z / 1.1
Times1_1(z) == Frac(z.n * 11, z.d * 10)

Over1_1(z) == Frac(z.n * 10, z.d * 11)

-----------------------------------------------------------------------------
(* Constants of FlowMap.state.ts *)

MIN_ZOOM_LEVEL == 0
MAX_ZOOM_LEVEL == 20

\* mapTransition(duration): the transition props spread into a viewport
mapTransition(duration) == Some(duration)

LocationFilterMode == {"ALL", "INCOMING", "OUTGOING", "BETWEEN"}

\* HighlightType.LOCATION and HighlightType.FLOW
LocationHighlight(id) == [type |-> "location", locationId |-> id]

FlowHighlight(o, d) == [type |-> "flow", flow |-> [origin |-> o, dest |-> d]]

-----------------------------------------------------------------------------
(* The reducer, one operator per case of its switch *)

\* SET_VIEWPORT storing the zoom it is given, without the clamp
SET_VIEWPORT_Unclamped(s, action) ==
  [s EXCEPT
     !.viewport = action.viewport,
     !.tooltip = Undefined,
     !.highlight = Undefined,
     !.adjustViewportToLocations =
        IF action.adjustViewportToLocations # Undefined THEN FALSE ELSE @]

\* SET_VIEWPORT clearing adjustViewportToLocations whatever the action carries
SET_VIEWPORT_FlagAlwaysCleared(s, action) ==
  [s EXCEPT
     !.viewport = [action.viewport EXCEPT
                     !.zoom = MathMin(Num(MAX_ZOOM_LEVEL),
                                      MathMax(Num(MIN_ZOOM_LEVEL), action.viewport.zoom))],
     !.tooltip = Undefined,
     !.highlight = Undefined,
     !.adjustViewportToLocations = FALSE]

SET_VIEWPORT(s, action) ==
  [s EXCEPT
     !.viewport = [action.viewport EXCEPT
                     !.zoom = MathMin(Num(MAX_ZOOM_LEVEL),
                                      MathMax(Num(MIN_ZOOM_LEVEL), action.viewport.zoom))],
     !.tooltip = Undefined,
     !.highlight = Undefined,
     !.adjustViewportToLocations =
        IF action.adjustViewportToLocations # Undefined THEN FALSE ELSE @]

\* ZOOM_IN without Math.min
ZOOM_IN_Unclamped(s, action) ==
  [s EXCEPT
     !.viewport.zoom = Times1_1(s.viewport.zoom),
     !.tooltip = Undefined,
     !.highlight = Undefined]

ZOOM_IN(s, action) ==
  [s EXCEPT
     !.viewport.zoom = MathMin(Num(MAX_ZOOM_LEVEL), Times1_1(s.viewport.zoom)),
     !.tooltip = Undefined,
     !.highlight = Undefined]

\* ZOOM_OUT leaving the tooltip in place
ZOOM_OUT_KeepTooltip(s, action) ==
  [s EXCEPT
     !.viewport.zoom = MathMax(Num(MIN_ZOOM_LEVEL), Over1_1(s.viewport.zoom)),
     !.highlight = Undefined]

ZOOM_OUT(s, action) ==
  [s EXCEPT
     !.viewport.zoom = MathMax(Num(MIN_ZOOM_LEVEL), Over1_1(s.viewport.zoom)),
     !.tooltip = Undefined,
     !.highlight = Undefined]

RESET_BEARING_PITCH(s, action) ==
  [s EXCEPT
     !.viewport.bearing = 0,
     !.viewport.pitch = 0,
     !.viewport.transitionDuration = mapTransition(500)]

\* SET_HIGHLIGHT hiding the tooltip as well
SET_HIGHLIGHT_ClearsTooltip(s, action) ==
  [s EXCEPT !.highlight = action.highlight, !.tooltip = Undefined]

\* SET_HIGHLIGHT returning the new field alone, without the rest of the state
SET_HIGHLIGHT_NoSpread(s, action) == [highlight |-> action.highlight]

SET_HIGHLIGHT(s, action) == [s EXCEPT !.highlight = action.highlight]

SET_TOOLTIP(s, action) == [s EXCEPT !.tooltip = action.tooltip]

CLEAR_SELECTION(s, action) ==
  [s EXCEPT
     !.selectedLocations = Undefined,
     !.locationFilterMode = "ALL",
     !.highlight = Undefined,
     !.tooltip = Undefined]

\* SET_SELECTED_LOCATIONS normalising an empty list but leaving the filter mode
SET_SELECTED_LOCATIONS_KeepMode(s, action) ==
  LET selectedLocations == action.selectedLocations
      isEmpty == \/ selectedLocations = Undefined
                 \/ Len(selectedLocations[1]) = 0
  IN IF isEmpty
       THEN [s EXCEPT !.selectedLocations = Undefined]
       ELSE [s EXCEPT !.selectedLocations = selectedLocations]

\* SET_SELECTED_LOCATIONS storing the list it is given, empty or not
SET_SELECTED_LOCATIONS_Verbatim(s, action) ==
  [s EXCEPT !.selectedLocations = action.selectedLocations]

SET_SELECTED_LOCATIONS(s, action) ==
  LET selectedLocations == action.selectedLocations
      isEmpty == \/ selectedLocations = Undefined
                 \/ Len(selectedLocations[1]) = 0
  IN IF isEmpty
       THEN [s EXCEPT !.locationFilterMode = "ALL", !.selectedLocations = Undefined]
       ELSE [s EXCEPT !.selectedLocations = selectedLocations]

SET_LOCATION_FILTER_MODE(s, action) == [s EXCEPT !.locationFilterMode = action.mode]

SET_TIME_RANGE(s, action) == [s EXCEPT !.selectedTimeRange = Some(action.range)]

\* Array.prototype.findIndex: the first index holding id, 0 when there is none
\* (the code's -1; sequences here are indexed from 1)
findIndex(list, id) ==
  IF \E i \in 1..Len(list) : list[i] = id
    THEN CHOOSE i \in 1..Len(list) :
           list[i] = id /\ \A j \in 1..(i - 1) : list[j] # id
    ELSE 0

\* slice() followed by splice(idx, 1): the list without its element at idx
splice(list, idx) == SubSeq(list, 1, idx - 1) \o SubSeq(list, idx + 1, Len(list))

\* nextSelectedLocations ignoring the incremental flag (always single-select)
nextSelectedLocations_NeverAppend(selectedLocations, locationId, incremental) ==
  IF selectedLocations # Undefined
    THEN LET list == selectedLocations[1]
             idx == findIndex(list, locationId)
         IN IF idx >= 1
              THEN LET rest == splice(list, idx)
                   IN IF Len(rest) = 0 THEN Undefined ELSE Some(rest)
              ELSE Some(<<locationId>>)
    ELSE Some(<<locationId>>)

\* nextSelectedLocations that never removes a selected id
nextSelectedLocations_NoRemoval(selectedLocations, locationId, incremental) ==
  IF selectedLocations # Undefined
    THEN LET list == selectedLocations[1]
             idx == findIndex(list, locationId)
         IN IF idx >= 1
              THEN selectedLocations
              ELSE IF incremental
                     THEN Some(Append(list, locationId))
                     ELSE Some(<<locationId>>)
    ELSE Some(<<locationId>>)

\* the nextSelectedLocations computed by the SELECT_LOCATION case
nextSelectedLocations(selectedLocations, locationId, incremental) ==
  IF selectedLocations # Undefined
    THEN LET list == selectedLocations[1]
             idx == findIndex(list, locationId)
         IN IF idx >= 1
              THEN LET rest == splice(list, idx)
                   IN IF Len(rest) = 0 THEN Undefined ELSE Some(rest)
              ELSE IF incremental
                     THEN Some(Append(list, locationId))
                     ELSE Some(<<locationId>>)
    ELSE Some(<<locationId>>)

\* SELECT_LOCATION leaving the filter mode when the selection becomes empty
SELECT_LOCATION_KeepMode(s, action) ==
  LET next == nextSelectedLocations(s.selectedLocations,
                                    action.locationId, action.incremental)
  IN [s EXCEPT
        !.selectedLocations = next,
        !.highlight = Undefined,
        !.tooltip = Undefined]

SELECT_LOCATION(s, action) ==
  LET next == nextSelectedLocations(s.selectedLocations,
                                    action.locationId, action.incremental)
  IN [s EXCEPT
        !.selectedLocations = next,
        !.locationFilterMode = IF next = Undefined THEN "ALL" ELSE @,
        !.highlight = Undefined,
        !.tooltip = Undefined]

SET_CLUSTERING_ENABLED(s, action) ==
  [s EXCEPT !.clusteringEnabled = action.clusteringEnabled]

\* SET_CLUSTERING_AUTO dropping the manual cluster zoom when it switches to auto
SET_CLUSTERING_AUTO_DropManualZoom(s, action) ==
  [s EXCEPT !.clusteringAuto = action.clusteringAuto,
            !.manualClusterZoom = IF action.clusteringAuto THEN Undefined ELSE @]

SET_CLUSTERING_AUTO(s, action) == [s EXCEPT !.clusteringAuto = action.clusteringAuto]

SET_ANIMATION_ENABLED(s, action) ==
  [s EXCEPT !.animationEnabled = action.animationEnabled]

SET_LOCATION_TOTALS_ENABLED(s, action) ==
  [s EXCEPT !.locationTotalsEnabled = action.locationTotalsEnabled]

SET_ADAPTIVE_SCALES_ENABLED(s, action) ==
  [s EXCEPT !.adaptiveScalesEnabled = action.adaptiveScalesEnabled]

SET_DARK_MODE(s, action) == [s EXCEPT !.darkMode = action.darkMode]

SET_FADE_ENABLED(s, action) == [s EXCEPT !.fadeEnabled = action.fadeEnabled]

SET_BASE_MAP_ENABLED(s, action) == [s EXCEPT !.baseMapEnabled = action.baseMapEnabled]

SET_FADE_AMOUNT(s, action) == [s EXCEPT !.fadeAmount = action.fadeAmount]

SET_BASE_MAP_OPACITY(s, action) == [s EXCEPT !.baseMapOpacity = action.baseMapOpacity]

\* SET_MANUAL_CLUSTER_ZOOM storing the zoom and leaving clusteringAuto as it is
SET_MANUAL_CLUSTER_ZOOM_KeepAuto(s, action) ==
  [s EXCEPT !.manualClusterZoom = action.manualClusterZoom]

SET_MANUAL_CLUSTER_ZOOM(s, action) ==
  [s EXCEPT !.clusteringAuto = FALSE, !.manualClusterZoom = action.manualClusterZoom]

SET_COLOR_SCHEME(s, action) == [s EXCEPT !.colorSchemeKey = Some(action.colorSchemeKey)]

reducer(s, action) ==
  CASE action.type = "SET_VIEWPORT" -> SET_VIEWPORT(s, action)
    [] action.type = "ZOOM_IN" -> ZOOM_IN(s, action)
    [] action.type = "ZOOM_OUT" -> ZOOM_OUT(s, action)
    [] action.type = "RESET_BEARING_PITCH" -> RESET_BEARING_PITCH(s, action)
    [] action.type = "SET_HIGHLIGHT" -> SET_HIGHLIGHT(s, action)
    [] action.type = "SET_TOOLTIP" -> SET_TOOLTIP(s, action)
    [] action.type = "CLEAR_SELECTION" -> CLEAR_SELECTION(s, action)
    [] action.type = "SET_SELECTED_LOCATIONS" -> SET_SELECTED_LOCATIONS(s, action)
    [] action.type = "SET_LOCATION_FILTER_MODE" -> SET_LOCATION_FILTER_MODE(s, action)
    [] action.type = "SET_TIME_RANGE" -> SET_TIME_RANGE(s, action)
    [] action.type = "SELECT_LOCATION" -> SELECT_LOCATION(s, action)
    [] action.type = "SET_CLUSTERING_ENABLED" -> SET_CLUSTERING_ENABLED(s, action)
    [] action.type = "SET_CLUSTERING_AUTO" -> SET_CLUSTERING_AUTO(s, action)
    [] action.type = "SET_ANIMATION_ENABLED" -> SET_ANIMATION_ENABLED(s, action)
    [] action.type = "SET_LOCATION_TOTALS_ENABLED" -> SET_LOCATION_TOTALS_ENABLED(s, action)
    [] action.type = "SET_ADAPTIVE_SCALES_ENABLED" -> SET_ADAPTIVE_SCALES_ENABLED(s, action)
    [] action.type = "SET_DARK_MODE" -> SET_DARK_MODE(s, action)
    [] action.type = "SET_FADE_ENABLED" -> SET_FADE_ENABLED(s, action)
    [] action.type = "SET_BASE_MAP_ENABLED" -> SET_BASE_MAP_ENABLED(s, action)
    [] action.type = "SET_FADE_AMOUNT" -> SET_FADE_AMOUNT(s, action)
    [] action.type = "SET_BASE_MAP_OPACITY" -> SET_BASE_MAP_OPACITY(s, action)
    [] action.type = "SET_MANUAL_CLUSTER_ZOOM" -> SET_MANUAL_CLUSTER_ZOOM(s, action)
    [] action.type = "SET_COLOR_SCHEME" -> SET_COLOR_SCHEME(s, action)
    [] OTHER -> s

-----------------------------------------------------------------------------
(* The initial state *)

\* the viewport(bbox, [width, height], undefined, undefined, 512, true) of
\* @mapbox/geo-viewport clamps its zoom to its default zoom range [0, 20]; the
\* value depends on the window, so the model takes one value of that range
DEFAULT_VIEWPORT ==
  [zoom |-> Num(1), bearing |-> 0, pitch |-> 0, transitionDuration |-> Undefined]

\* the configuration of a sheet that sets no property: the parsed values
\* getInitialState reads from it are the defaults
DEFAULT_CONFIG ==
  [animate |-> FALSE, clustering |-> TRUE, darkMode |-> TRUE, fadeAmount |-> 50,
   baseMapOpacity |-> 75, colorsScheme |-> Undefined]

\* the configurations getInitialState is applied to: DEFAULT_CONFIG and a sheet
\* that sets every property getInitialState reads
ConfigInputs ==
  { DEFAULT_CONFIG,
    [animate |-> TRUE, clustering |-> FALSE, darkMode |-> FALSE, fadeAmount |-> 30,
     baseMapOpacity |-> 40, colorsScheme |-> Some("Blues")] }

getInitialState(config) ==
  [viewport |-> DEFAULT_VIEWPORT,
   adjustViewportToLocations |-> TRUE,
   tooltip |-> Undefined,
   highlight |-> Undefined,
   selectedLocations |-> Undefined,
   locationTotalsEnabled |-> TRUE,
   locationFilterMode |-> "ALL",
   baseMapEnabled |-> TRUE,
   adaptiveScalesEnabled |-> TRUE,
   animationEnabled |-> config.animate,
   clusteringEnabled |-> config.clustering,
   manualClusterZoom |-> Undefined,
   fadeEnabled |-> TRUE,
   clusteringAuto |-> TRUE,
   darkMode |-> config.darkMode,
   fadeAmount |-> config.fadeAmount,
   baseMapOpacity |-> config.baseMapOpacity,
   colorSchemeKey |-> config.colorsScheme,
   selectedFlowsSheet |-> Undefined,
   selectedTimeRange |-> Undefined]

-----------------------------------------------------------------------------
(* The values actions are dispatched with *)

LocationIds == {"A", "B"}

\* viewports handed to SET_VIEWPORT: zooms below, inside and above the range
\* [MIN_ZOOM_LEVEL, MAX_ZOOM_LEVEL]; a rotated and tilted view as the map
\* controller reports it, and a flat one with a transition as the fit builds it
ViewportInputs ==
  { [zoom |-> Num(z), bearing |-> o[1], pitch |-> o[2], transitionDuration |-> o[3]] :
      z \in {-3, 19, 25},
      o \in { <<30, 45, Undefined>>, <<0, 0, mapTransition(500)>> } }

\* the optional adjustViewportToLocations of a SET_VIEWPORT action
AdjustInputs == {Undefined, Some(FALSE), Some(TRUE)}

HighlightInputs ==
  {Undefined, Some(LocationHighlight("A")), Some(FlowHighlight("A", "B"))}

TooltipInputs == { Undefined, Some([placement |-> "top", content |-> "flow"]) }

\* selections handed to SET_SELECTED_LOCATIONS: none, the empty list and the
\* lists of distinct ids (the search box hands over a set of ids)
SelectionInputs ==
  { Undefined, Some(<< >>), Some(<<"A">>), Some(<<"B">>),
    Some(<<"A", "B">>), Some(<<"B", "A">>) }

TimeRangeInputs == { <<1, 2>> }

ManualClusterZoomInputs == {Undefined, Some(5)}

FadeAmountInputs == {30, 50}

BaseMapOpacityInputs == {40, 75}

ColorSchemeInputs == {"Blues"}

-----------------------------------------------------------------------------
(* The actions of the vocabulary, with the values above *)

SetViewportActions ==
  { [type |-> "SET_VIEWPORT", viewport |-> v, adjustViewportToLocations |-> adj] :
      v \in ViewportInputs, adj \in AdjustInputs }

ZoomInAction == [type |-> "ZOOM_IN"]

ZoomOutAction == [type |-> "ZOOM_OUT"]

ResetBearingPitchAction == [type |-> "RESET_BEARING_PITCH"]

SetHighlightActions == { [type |-> "SET_HIGHLIGHT", highlight |-> h] : h \in HighlightInputs }

SetTooltipActions == { [type |-> "SET_TOOLTIP", tooltip |-> tt] : tt \in TooltipInputs }

ClearSelectionAction == [type |-> "CLEAR_SELECTION"]

SelectLocationAction(id, inc) ==
  [type |-> "SELECT_LOCATION", locationId |-> id, incremental |-> inc]

SelectLocationActions ==
  { SelectLocationAction(id, inc) : id \in LocationIds, inc \in BOOLEAN }

SetSelectedLocationsAction(sel) ==
  [type |-> "SET_SELECTED_LOCATIONS", selectedLocations |-> sel]

SetSelectedLocationsActions == { SetSelectedLocationsAction(sel) : sel \in SelectionInputs }

SetLocationFilterModeActions ==
  { [type |-> "SET_LOCATION_FILTER_MODE", mode |-> m] : m \in LocationFilterMode }

\* the actions on the display settings and the time range
SettingActions ==
  { [type |-> "SET_TIME_RANGE", range |-> r] : r \in TimeRangeInputs }
  \cup { [type |-> "SET_CLUSTERING_ENABLED", clusteringEnabled |-> b] : b \in BOOLEAN }
  \cup { [type |-> "SET_CLUSTERING_AUTO", clusteringAuto |-> b] : b \in BOOLEAN }
  \cup { [type |-> "SET_MANUAL_CLUSTER_ZOOM", manualClusterZoom |-> z] :
           z \in ManualClusterZoomInputs }
  \cup { [type |-> "SET_ANIMATION_ENABLED", animationEnabled |-> b] : b \in BOOLEAN }
  \cup { [type |-> "SET_LOCATION_TOTALS_ENABLED", locationTotalsEnabled |-> b] :
           b \in BOOLEAN }
  \cup { [type |-> "SET_ADAPTIVE_SCALES_ENABLED", adaptiveScalesEnabled |-> b] :
           b \in BOOLEAN }
  \cup { [type |-> "SET_DARK_MODE", darkMode |-> b] : b \in BOOLEAN }
  \cup { [type |-> "SET_FADE_ENABLED", fadeEnabled |-> b] : b \in BOOLEAN }
  \cup { [type |-> "SET_BASE_MAP_ENABLED", baseMapEnabled |-> b] : b \in BOOLEAN }
  \cup { [type |-> "SET_FADE_AMOUNT", fadeAmount |-> x] : x \in FadeAmountInputs }
  \cup { [type |-> "SET_BASE_MAP_OPACITY", baseMapOpacity |-> x] :
           x \in BaseMapOpacityInputs }
  \cup { [type |-> "SET_COLOR_SCHEME", colorSchemeKey |-> k] : k \in ColorSchemeInputs }

\* an action whose type is none of ActionType
UnknownAction == [type |-> "UNKNOWN"]

Actions ==
  SetViewportActions \cup {ZoomInAction, ZoomOutAction, ResetBearingPitchAction}
  \cup SetHighlightActions \cup SetTooltipActions \cup {ClearSelectionAction}
  \cup SelectLocationActions \cup SetSelectedLocationsActions
  \cup SetLocationFilterModeActions \cup SettingActions \cup {UnknownAction}

-----------------------------------------------------------------------------
(* The animation clock: core/FlowMap.tsx *)

\* x * y, x / y (y # 0) and the remainder x % y of JavaScript (y > 0), whose
\* quotient is truncated towards zero
FracMul(x, y) == Frac(x.n * y.n, x.d * y.d)

FracDiv(x, y) ==
  IF y.n > 0 THEN Frac(x.n * y.d, x.d * y.n) ELSE Frac(-(x.n * y.d), x.d * (-y.n))

Trunc(x) == IF x.n >= 0 THEN x.n \div x.d ELSE -((-x.n) \div x.d)

FracMod(x, y) ==
  LET q == Trunc(FracDiv(x, y))
  IN  Frac(x.n * y.d - y.n * q * x.d, x.d * y.d)

loopLength == 1800
animationSpeed == 20
loopTime == FracDiv(Num(loopLength), Num(animationSpeed))

\* the clock of the component: requestAnimationFrameRef.current, and of the
\* window the frame requests not yet run or cancelled and the latest handle
\* (requestAnimationFrame returns a new handle, greater than zero, each time)
requestAnimationFrame(c) ==
  [c EXCEPT !.lastAnimationFrame = @ + 1,
            !.animationFrames = @ \cup {c.lastAnimationFrame + 1}]

cancelAnimationFrame(c, handle) == [c EXCEPT !.animationFrames = @ \ {handle}]

\* animate without the remainder: the time grows with the timestamp
animate_NoRemainder(frameTime, c) ==
  LET timestamp == FracDiv(frameTime, Num(1000))
      r == requestAnimationFrame(c)
  IN  [time |-> FracMul(FracDiv(timestamp, loopTime), Num(loopLength)),
       clock |-> [r EXCEPT !.requestAnimationFrameRef = Some(r.lastAnimationFrame)]]

\* animate that requests the next frame without storing its handle
animate_HandleNotStored(frameTime, c) ==
  LET timestamp == FracDiv(frameTime, Num(1000))
  IN  [time |-> FracMul(FracDiv(FracMod(timestamp, loopTime), loopTime), Num(loopLength)),
       clock |-> requestAnimationFrame(c)]

\* animate(time): the value given to setTime, and the clock after the request
\* of the next frame
animate(frameTime, c) ==
  LET timestamp == FracDiv(frameTime, Num(1000))
      r == requestAnimationFrame(c)
  IN  [time |-> FracMul(FracDiv(FracMod(timestamp, loopTime), loopTime), Num(loopLength)),
       clock |-> [r EXCEPT !.requestAnimationFrameRef = Some(r.lastAnimationFrame)]]

\* the body of the animation effect
animationEffect(animationEnabled, c) ==
  IF animationEnabled
    THEN LET r == requestAnimationFrame(c)
         IN  [r EXCEPT !.requestAnimationFrameRef = Some(r.lastAnimationFrame)]
    ELSE LET animationFrame == c.requestAnimationFrameRef
         IN  IF animationFrame # Undefined /\ animationFrame[1] > 0
               THEN [cancelAnimationFrame(c, animationFrame[1])
                       EXCEPT !.requestAnimationFrameRef = Undefined]
               ELSE c

\* a cleanup that cancels nothing
animationEffectCleanup_NoCancel(c) == c

\* the cleanup the animation effect returns
animationEffectCleanup(c) ==
  IF c.requestAnimationFrameRef # Undefined
    THEN cancelAnimationFrame(c, c.requestAnimationFrameRef[1])
    ELSE c

\* the clock as the variables hold it
clock ==
  [requestAnimationFrameRef |-> requestAnimationFrameRef,
   animationFrames |-> animationFrames,
   lastAnimationFrame |-> lastAnimationFrame]

\* the clock of a component before its first effect, in a window whose latest
\* handle is last
newClock(last) ==
  [requestAnimationFrameRef |-> Undefined, animationFrames |-> {},
   lastAnimationFrame |-> last]

\* the effect runs after a render in which animationEnabled differs from the
\* previous render's: the previous effect's cleanup first, then the body
animationEffectRerun(before, after, c) ==
  IF before.animationEnabled = after.animationEnabled THEN c
  ELSE animationEffect(after.animationEnabled, animationEffectCleanup(c))

SetInitialClock(c) ==
  /\ requestAnimationFrameRef = c.requestAnimationFrameRef
  /\ animationFrames = c.animationFrames
  /\ lastAnimationFrame = c.lastAnimationFrame

SetClock(c) ==
  /\ requestAnimationFrameRef' = c.requestAnimationFrameRef
  /\ animationFrames' = c.animationFrames
  /\ lastAnimationFrame' = c.lastAnimationFrame

-----------------------------------------------------------------------------
(* Dispatching: useReducer replaces the state by reducer(state, action) *)

Dispatch(action) == state' = reducer(state, action)

ActionsOfType(type) == {a \in SettingActions : a.type = type}

RECURSIVE Pow(_, _)
Pow(b, e) == IF e = 0 THEN 1 ELSE b * Pow(b, e - 1)

\* a zoom-button action is explored while the new zoom's denominator is small
ZoomWithinModel(z) == z.d <= Pow(11, MaxZoomSteps)

\* display-setting actions are counted against MaxSettings

DispatchSetViewport ==
  /\ \E action \in SetViewportActions : Dispatch(action)
  /\ UNCHANGED <<nSettings, dataset, resolved, debounceVars, clockVars>>

DispatchZoomIn ==
  /\ ZoomWithinModel(Times1_1(state.viewport.zoom))
  /\ Dispatch(ZoomInAction)
  /\ UNCHANGED <<nSettings, dataset, resolved, debounceVars, clockVars>>

DispatchZoomOut ==
  /\ ZoomWithinModel(Over1_1(state.viewport.zoom))
  /\ Dispatch(ZoomOutAction)
  /\ UNCHANGED <<nSettings, dataset, resolved, debounceVars, clockVars>>

DispatchResetBearingPitch ==
  /\ Dispatch(ResetBearingPitchAction)
  /\ UNCHANGED <<nSettings, dataset, resolved, debounceVars, clockVars>>

DispatchSetHighlight ==
  /\ \E action \in SetHighlightActions : Dispatch(action)
  /\ UNCHANGED <<nSettings, dataset, resolved, debounceVars, clockVars>>

DispatchSetTooltip ==
  /\ \E action \in SetTooltipActions : Dispatch(action)
  /\ UNCHANGED <<nSettings, dataset, resolved, debounceVars, clockVars>>

DispatchClearSelection ==
  /\ Dispatch(ClearSelectionAction)
  /\ UNCHANGED <<nSettings, dataset, resolved, debounceVars, clockVars>>

DispatchSelectLocation ==
  /\ \E action \in SelectLocationActions : Dispatch(action)
  /\ UNCHANGED <<nSettings, dataset, resolved, debounceVars, clockVars>>

DispatchSetSelectedLocations ==
  /\ \E action \in SetSelectedLocationsActions : Dispatch(action)
  /\ UNCHANGED <<nSettings, dataset, resolved, debounceVars, clockVars>>

DispatchSetLocationFilterMode ==
  /\ \E action \in SetLocationFilterModeActions : Dispatch(action)
  /\ UNCHANGED <<nSettings, dataset, resolved, debounceVars, clockVars>>

DispatchSetTimeRange ==
  /\ nSettings < MaxSettings
  /\ \E action \in ActionsOfType("SET_TIME_RANGE") : Dispatch(action)
  /\ nSettings' = nSettings + 1
  /\ UNCHANGED <<dataset, resolved, debounceVars, clockVars>>

DispatchSetClusteringEnabled ==
  /\ nSettings < MaxSettings
  /\ \E action \in ActionsOfType("SET_CLUSTERING_ENABLED") : Dispatch(action)
  /\ nSettings' = nSettings + 1
  /\ UNCHANGED <<dataset, resolved, debounceVars, clockVars>>

DispatchSetClusteringAuto ==
  /\ nSettings < MaxSettings
  /\ \E action \in ActionsOfType("SET_CLUSTERING_AUTO") : Dispatch(action)
  /\ nSettings' = nSettings + 1
  /\ UNCHANGED <<dataset, resolved, debounceVars, clockVars>>

DispatchSetManualClusterZoom ==
  /\ nSettings < MaxSettings
  /\ \E action \in ActionsOfType("SET_MANUAL_CLUSTER_ZOOM") : Dispatch(action)
  /\ nSettings' = nSettings + 1
  /\ UNCHANGED <<dataset, resolved, debounceVars, clockVars>>

DispatchSetAnimationEnabled ==
  /\ nSettings < MaxSettings
  /\ \E action \in ActionsOfType("SET_ANIMATION_ENABLED") : Dispatch(action)
  /\ nSettings' = nSettings + 1
  /\ SetClock(animationEffectRerun(state, state', clock))
  /\ UNCHANGED <<dataset, resolved, debounceVars, time, mounted>>

DispatchSetLocationTotalsEnabled ==
  /\ nSettings < MaxSettings
  /\ \E action \in ActionsOfType("SET_LOCATION_TOTALS_ENABLED") : Dispatch(action)
  /\ nSettings' = nSettings + 1
  /\ UNCHANGED <<dataset, resolved, debounceVars, clockVars>>

DispatchSetAdaptiveScalesEnabled ==
  /\ nSettings < MaxSettings
  /\ \E action \in ActionsOfType("SET_ADAPTIVE_SCALES_ENABLED") : Dispatch(action)
  /\ nSettings' = nSettings + 1
  /\ UNCHANGED <<dataset, resolved, debounceVars, clockVars>>

DispatchSetDarkMode ==
  /\ nSettings < MaxSettings
  /\ \E action \in ActionsOfType("SET_DARK_MODE") : Dispatch(action)
  /\ nSettings' = nSettings + 1
  /\ UNCHANGED <<dataset, resolved, debounceVars, clockVars>>

DispatchSetFadeEnabled ==
  /\ nSettings < MaxSettings
  /\ \E action \in ActionsOfType("SET_FADE_ENABLED") : Dispatch(action)
  /\ nSettings' = nSettings + 1
  /\ UNCHANGED <<dataset, resolved, debounceVars, clockVars>>

DispatchSetBaseMapEnabled ==
  /\ nSettings < MaxSettings
  /\ \E action \in ActionsOfType("SET_BASE_MAP_ENABLED") : Dispatch(action)
  /\ nSettings' = nSettings + 1
  /\ UNCHANGED <<dataset, resolved, debounceVars, clockVars>>

DispatchSetFadeAmount ==
  /\ nSettings < MaxSettings
  /\ \E action \in ActionsOfType("SET_FADE_AMOUNT") : Dispatch(action)
  /\ nSettings' = nSettings + 1
  /\ UNCHANGED <<dataset, resolved, debounceVars, clockVars>>

DispatchSetBaseMapOpacity ==
  /\ nSettings < MaxSettings
  /\ \E action \in ActionsOfType("SET_BASE_MAP_OPACITY") : Dispatch(action)
  /\ nSettings' = nSettings + 1
  /\ UNCHANGED <<dataset, resolved, debounceVars, clockVars>>

DispatchSetColorScheme ==
  /\ nSettings < MaxSettings
  /\ \E action \in ActionsOfType("SET_COLOR_SCHEME") : Dispatch(action)
  /\ nSettings' = nSettings + 1
  /\ UNCHANGED <<dataset, resolved, debounceVars, clockVars>>

DispatchUnknown ==
  /\ Dispatch(UnknownAction)
  /\ UNCHANGED <<nSettings, dataset, resolved, debounceVars, clockVars>>

\* the view is created with DEFAULT_CONFIG; every setting a sheet can set is
\* also set by a SET_ action
Init ==
  /\ state = getInitialState(DEFAULT_CONFIG)
  /\ nSettings = 0
  /\ dataset = Undefined
  /\ resolved = Undefined
  /\ highlightDebounced = Undefined
  /\ showTooltipDebounced = Undefined
  /\ SetInitialClock(animationEffect(state.animationEnabled, newClock(0)))
  /\ time = Num(0)
  /\ mounted = TRUE

Next ==
  \/ DispatchSetViewport
  \/ DispatchZoomIn
  \/ DispatchZoomOut
  \/ DispatchResetBearingPitch
  \/ DispatchSetHighlight
  \/ DispatchSetTooltip
  \/ DispatchClearSelection
  \/ DispatchSelectLocation
  \/ DispatchSetSelectedLocations
  \/ DispatchSetLocationFilterMode
  \/ DispatchSetTimeRange
  \/ DispatchSetClusteringEnabled
  \/ DispatchSetClusteringAuto
  \/ DispatchSetManualClusterZoom
  \/ DispatchSetAnimationEnabled
  \/ DispatchSetLocationTotalsEnabled
  \/ DispatchSetAdaptiveScalesEnabled
  \/ DispatchSetDarkMode
  \/ DispatchSetFadeEnabled
  \/ DispatchSetBaseMapEnabled
  \/ DispatchSetFadeAmount
  \/ DispatchSetBaseMapOpacity
  \/ DispatchSetColorScheme
  \/ DispatchUnknown

Spec == Init /\ [][Next]_vars

-----------------------------------------------------------------------------
(* Zoom-button runs: ZOOM_IN and ZOOM_OUT applied to a state with any zoom *)

ZoomStarts == { Num(z) : z \in (MIN_ZOOM_LEVEL - ZoomMargin)..(MAX_ZOOM_LEVEL + ZoomMargin) }

InitZoom ==
  /\ \E config \in ConfigInputs, z \in ZoomStarts :
       state = [getInitialState(config) EXCEPT !.viewport.zoom = z]
  /\ nSettings = 0
  /\ dataset = Undefined
  /\ resolved = Undefined
  /\ highlightDebounced = Undefined
  /\ showTooltipDebounced = Undefined
  /\ SetInitialClock(animationEffect(state.animationEnabled, newClock(0)))
  /\ time = Num(0)
  /\ mounted = TRUE

NextZoom == DispatchZoomIn \/ DispatchZoomOut

SpecZoom == InitZoom /\ [][NextZoom]_vars

-----------------------------------------------------------------------------
(* The view: core/FlowMap.tsx *)

\* the actions a handler or an effect dispatches, applied in order
RECURSIVE dispatchAll(_, _)
dispatchAll(s, actions) ==
  IF actions = << >> THEN s
  ELSE dispatchAll(reducer(s, Head(actions)), Tail(actions))

\* the datasets the props carry once locationsFetch and flowsFetch are loaded
DatasetInputs == {Undefined, Some("D1"), Some("D2")}

\* the zoom of getViewStateForLocations(...): none, 0 or a zoom of the range
DraftZoomInputs == {Undefined, Some(Num(0)), Some(Num(4))}

\* the viewport the fit effect sets: the draft, or zoom 1 when the draft has no
\* (or a zero) zoom, with bearing 0, pitch 0 and mapTransition(500)
fitViewport(draftZoom) ==
  [zoom |-> IF draftZoom = Undefined \/ draftZoom[1] = Num(0)
              THEN Num(1) ELSE draftZoom[1],
   bearing |-> 0, pitch |-> 0, transitionDuration |-> mapTransition(500)]

\* the fit effect calling setViewportAction without its second argument
viewportFitEffect_NotFlagged(s, allLocations, draftZoom) ==
  IF ~s.adjustViewportToLocations THEN << >>
  ELSE IF allLocations = Undefined THEN << >>
  ELSE << [type |-> "SET_VIEWPORT", viewport |-> fitViewport(draftZoom),
           adjustViewportToLocations |-> Undefined] >>

\* the effect on [allLocations, locationsHavingFlows, adjustViewportToLocations]:
\* the actions it dispatches for the state s and the locations of the props
viewportFitEffect(s, allLocations, draftZoom) ==
  IF ~s.adjustViewportToLocations THEN << >>
  ELSE IF allLocations = Undefined THEN << >>
  ELSE << [type |-> "SET_VIEWPORT", viewport |-> fitViewport(draftZoom),
           adjustViewportToLocations |-> Some(FALSE)] >>

\* PickingType of the flow map layer, and the picks a click or a hover carries:
\* info.type (undefined when nothing of the layer is picked) and info.object
PickingType == {"LOCATION", "LOCATION_AREA", "FLOW"}

PickInputs ==
  { [type |-> ty, object |-> ob] :
      ty \in {Undefined} \cup { Some(k) : k \in PickingType },
      ob \in {Undefined} \cup { Some([id |-> i]) : i \in LocationIds } }

getLocationId(object) == object.id

\* handleClick with shiftKey ignored: every click replaces the selection
handleClick_NeverIncremental(info, event) ==
  IF info.type \in {Some("LOCATION"), Some("LOCATION_AREA")} /\ info.object # Undefined
    THEN << [type |-> "SELECT_LOCATION", locationId |-> getLocationId(info.object[1]),
             incremental |-> FALSE] >>
    ELSE << >>

\* handleClick(info, event, selectLocationAction): the actions it dispatches
handleClick(info, event) ==
  IF info.type \in {Some("LOCATION"), Some("LOCATION_AREA")}
    THEN IF info.object # Undefined
           THEN << SelectLocationAction(getLocationId(info.object[1]),
                                        event.srcEvent.shiftKey) >>
           ELSE << >>
    ELSE << >>

\* the cluster index of getClusterIndex(state, props), as far as the resolver
\* reads it: getClusterById(id) (a cluster with its zoom, or undefined) and
\* getMinZoomForLocation(id) (a zoom, or undefined)
ClusterIndexes ==
  { [clusterById |-> c, minZoomForLocation |-> m] :
      c \in [LocationIds -> {Undefined, Some([zoom |-> 5])}],
      m \in [LocationIds -> {Undefined, Some(5)}] }

ClusterIndexInputs == {Undefined} \cup { Some(i) : i \in ClusterIndexes }

\* the cluster zoom of getClusterZoom(state, props)
ClusterZoomInputs == {Undefined, Some(4), Some(5), Some(6)}

\* isValidForClusterZoom with a location standing alone only above its minimum zoom
isValidForClusterZoom_AboveMinZoom(clusterTree, clusterZoom, itemId) ==
  LET cluster == clusterTree.clusterById[itemId]
      minZoom == clusterTree.minZoomForLocation[itemId]
  IN IF cluster # Undefined
       THEN cluster[1].zoom = clusterZoom
       ELSE minZoom = Undefined \/ clusterZoom > minZoom[1]

\* isValidForClusterZoom with a location of unknown minimum zoom taken as invalid
isValidForClusterZoom_NeedsMinZoom(clusterTree, clusterZoom, itemId) ==
  LET cluster == clusterTree.clusterById[itemId]
      minZoom == clusterTree.minZoomForLocation[itemId]
  IN IF cluster # Undefined
       THEN cluster[1].zoom = clusterZoom
       ELSE minZoom # Undefined /\ clusterZoom >= minZoom[1]

isValidForClusterZoom(clusterTree, clusterZoom, itemId) ==
  LET cluster == clusterTree.clusterById[itemId]
      minZoom == clusterTree.minZoomForLocation[itemId]
  IN IF cluster # Undefined
       THEN cluster[1].zoom = clusterZoom
       ELSE minZoom = Undefined \/ clusterZoom >= minZoom[1]

\* the resolver with a FLOW highlight validated by its origin alone
getHighlightForZoom_OriginOnly(s, clusterTree, clusterZoom) ==
  IF s.highlight = Undefined \/ ~s.clusteringEnabled THEN s.highlight
  ELSE IF clusterTree = Undefined \/ clusterZoom = Undefined THEN Undefined
  ELSE LET highlight == s.highlight[1]
       IN IF highlight.type = "location"
            THEN IF isValidForClusterZoom(clusterTree[1], clusterZoom[1],
                                          highlight.locationId)
                   THEN s.highlight ELSE Undefined
            ELSE IF isValidForClusterZoom(clusterTree[1], clusterZoom[1],
                                          highlight.flow.origin)
                   THEN s.highlight ELSE Undefined

\* the resolver without its guard on a missing cluster index or cluster zoom:
\* the highlight passes when it cannot be validated
getHighlightForZoom_PassUnvalidated(s, clusterTree, clusterZoom) ==
  IF s.highlight = Undefined \/ ~s.clusteringEnabled THEN s.highlight
  ELSE IF clusterTree = Undefined \/ clusterZoom = Undefined THEN s.highlight
  ELSE LET highlight == s.highlight[1]
       IN IF highlight.type = "location"
            THEN IF isValidForClusterZoom(clusterTree[1], clusterZoom[1],
                                          highlight.locationId)
                   THEN s.highlight ELSE Undefined
            ELSE IF /\ isValidForClusterZoom(clusterTree[1], clusterZoom[1],
                                             highlight.flow.origin)
                    /\ isValidForClusterZoom(clusterTree[1], clusterZoom[1],
                                             highlight.flow.dest)
                   THEN s.highlight ELSE Undefined

\* getHighlightForZoom(state, props), with the two selectors' values as inputs
getHighlightForZoom(s, clusterTree, clusterZoom) ==
  IF s.highlight = Undefined \/ ~s.clusteringEnabled THEN s.highlight
  ELSE IF clusterTree = Undefined \/ clusterZoom = Undefined THEN Undefined
  ELSE LET highlight == s.highlight[1]
       IN CASE highlight.type = "location" ->
                 IF isValidForClusterZoom(clusterTree[1], clusterZoom[1],
                                          highlight.locationId)
                   THEN s.highlight ELSE Undefined
            [] highlight.type = "flow" ->
                 IF /\ isValidForClusterZoom(clusterTree[1], clusterZoom[1],
                                             highlight.flow.origin)
                    /\ isValidForClusterZoom(clusterTree[1], clusterZoom[1],
                                             highlight.flow.dest)
                   THEN s.highlight ELSE Undefined
            [] OTHER -> Undefined

-----------------------------------------------------------------------------
(* The debounced functions of the view: useDebounced of core/hooks *)

\* both debounced functions are made with a delay of 500 ms
debounceDelay == 500

\* A debounced function is known by its pending call, if any: the arguments
\* the wrapped function is to be called with and the time left until then.

\* a call that keeps the delay of the call already pending
debounced_DelayNotRestarted(pending, args, delay) ==
  IF pending = Undefined
    THEN Some([args |-> args, remaining |-> delay])
    ELSE Some([args |-> args, remaining |-> pending[1].remaining])

\* calling the debounced function: the call replaces the pending one and the
\* delay starts again
debounced(pending, args, delay) == Some([args |-> args, remaining |-> delay])

\* cancel of useDebounced: nothing is pending after it
cancelDebounced(pending) == Undefined

\* the pending call after ms milliseconds
elapse(pending, ms) ==
  IF pending = Undefined THEN pending
  ELSE Some([pending[1] EXCEPT !.remaining = IF @ > ms THEN @ - ms ELSE 0])

\* the timer of the pending call has run out
isDue(pending) == pending # Undefined /\ pending[1].remaining = 0

-----------------------------------------------------------------------------
(* The hover coordinator: core/FlowMap.tsx *)

\* the flows and the picks a hover carries: info.type, info.object, the pointer
\* position and, for a location, the radius of its circle
FlowObjects == { [origin |-> "A", dest |-> "B"] }

HoverObjects(ty) ==
  IF ty = Some("FLOW") THEN { Some(f) : f \in FlowObjects }
  ELSE IF ty = Undefined THEN {}
  ELSE { Some([id |-> i]) : i \in LocationIds }

\* a hover carries a flow with a FLOW pick, a location with a LOCATION or a
\* LOCATION_AREA pick, or no object
HoverInputs ==
  { [type |-> p[1], object |-> p[2], x |-> 10, y |-> 20, circleRadius |-> 3] :
      p \in UNION { { <<ty, ob>> : ob \in {Undefined} \cup HoverObjects(ty) } :
                      ty \in {Undefined} \cup { Some(k) : k \in PickingType } } }

\* getContainerClientRect(): the container is rendered once the data is there
containerBounds ==
  IF dataset = Undefined THEN Undefined ELSE Some([top |-> 50, left |-> 100])

\* mercator.project(getLocationCentroid(location)): where the location is drawn
project(location) == IF location.id = "A" THEN <<40, 60>> ELSE <<70, 80>>

\* showTooltip(bounds, content): the actions it dispatches
showTooltip(bounds, content, container) ==
  IF container = Undefined THEN << >>
  ELSE << [type |-> "SET_TOOLTIP",
           tooltip |-> Some([target |-> [left |-> container[1].left + bounds.left,
                                         top |-> container[1].top + bounds.top,
                                         width |-> bounds.width,
                                         height |-> bounds.height],
                             placement |-> "top",
                             content |-> content])] >>

\* hideTooltip that leaves the debounced show pending
hideTooltip_ShowNotCancelled(pending) ==
  [dispatched |-> << [type |-> "SET_TOOLTIP", tooltip |-> Undefined] >>,
   showTooltipDebounced |-> pending]

\* hideTooltip that cancels the debounced show and leaves the tooltip shown
hideTooltip_TooltipKept(pending) ==
  [dispatched |-> << >>,
   showTooltipDebounced |-> cancelDebounced(pending)]

\* hideTooltip(): what it dispatches, and showTooltipDebounced after it
hideTooltip(pending) ==
  [dispatched |-> << [type |-> "SET_TOOLTIP", tooltip |-> Undefined] >>,
   showTooltipDebounced |-> cancelDebounced(pending)]

\* the tooltip policy without the debounce: the tooltip is shown at once
showOrDebounce_AlwaysAtOnce(s, bounds, content, container, pending) ==
  [dispatched |-> showTooltip(bounds, content, container),
   showTooltipDebounced |-> cancelDebounced(pending)]

\* the end of showFlowTooltip and of showLocationTooltip: at once when a
\* tooltip is shown, debounced when none is
showOrDebounce(s, bounds, content, container, pending) ==
  IF s.tooltip # Undefined
    THEN [dispatched |-> showTooltip(bounds, content, container),
          showTooltipDebounced |-> cancelDebounced(pending)]
    ELSE [dispatched |-> << >>,
          showTooltipDebounced |-> debounced(pending, <<bounds, content>>, debounceDelay)]

\* showFlowTooltip(pos, info)
showFlowTooltip(s, pos, info, container, pending) ==
  LET r == 5
      bounds == [left |-> pos[1] - r, top |-> pos[2] - r,
                 width |-> r * 2, height |-> r * 2]
      content == [component |-> "FlowTooltipContent", flow |-> info.object[1]]
  IN  showOrDebounce(s, bounds, content, container, pending)

\* showLocationTooltip(info); getMercator() is undefined without a container
showLocationTooltip(s, info, container, pending) ==
  IF container = Undefined
    THEN [dispatched |-> << >>, showTooltipDebounced |-> pending]
    ELSE
      LET location == info.object[1]
          xy == project(location)
          r == info.circleRadius + 5
          bounds == [left |-> xy[1] - r, top |-> xy[2] - r,
                     width |-> r * 2, height |-> r * 2]
          content == [component |-> "LocationTooltipContent",
                      locationInfo |-> location,
                      isSelectionEmpty |-> s.selectedLocations = Undefined,
                      isSelected |-> /\ s.selectedLocations # Undefined
                                     /\ findIndex(s.selectedLocations[1], location.id) > 0]
      IN  showOrDebounce(s, bounds, content, container, pending)

\* setHighlightAction(highlight)
setHighlightAction(highlight) == [type |-> "SET_HIGHLIGHT", highlight |-> highlight]

\* the branches of handleHover for no object and for any other pick
hoverNothing_HighlightNotCancelled(s, info, container, hd, td) ==
  LET hide == hideTooltip(td)
  IN  [dispatched |-> << setHighlightAction(Undefined) >> \o hide.dispatched,
       highlightDebounced |-> hd,
       showTooltipDebounced |-> hide.showTooltipDebounced]

hoverNothing(s, info, container, hd, td) ==
  LET hide == hideTooltip(td)
  IN  [dispatched |-> << setHighlightAction(Undefined) >> \o hide.dispatched,
       highlightDebounced |-> cancelDebounced(hd),
       showTooltipDebounced |-> hide.showTooltipDebounced]

\* the FLOW branch that leaves the debounced highlight pending
hoverFlow_HighlightNotCancelled(s, info, container, hd, td) ==
  LET show == showFlowTooltip(s, <<info.x, info.y>>, info, container, td)
  IN  [dispatched |-> << setHighlightAction(Some([type |-> "flow",
                                                  flow |-> info.object[1]])) >>
                      \o show.dispatched,
       highlightDebounced |-> hd,
       showTooltipDebounced |-> show.showTooltipDebounced]

\* case PickingType.FLOW with an object
hoverFlow(s, info, container, hd, td) ==
  LET show == showFlowTooltip(s, <<info.x, info.y>>, info, container, td)
  IN  [dispatched |-> << setHighlightAction(Some([type |-> "flow",
                                                  flow |-> info.object[1]])) >>
                      \o show.dispatched,
       highlightDebounced |-> cancelDebounced(hd),
       showTooltipDebounced |-> show.showTooltipDebounced]

\* the LOCATION branch that sets the highlight at once
hoverLocation_HighlightAtOnce(s, info, container, hd, td) ==
  LET show == showLocationTooltip(s, info, container, td)
  IN  [dispatched |-> << setHighlightAction(
                           Some(LocationHighlight(getLocationId(info.object[1])))) >>
                      \o show.dispatched,
       highlightDebounced |-> cancelDebounced(hd),
       showTooltipDebounced |-> show.showTooltipDebounced]

\* case PickingType.LOCATION with an object
hoverLocation(s, info, container, hd, td) ==
  LET show == showLocationTooltip(s, info, container, td)
  IN  [dispatched |-> show.dispatched,
       highlightDebounced |->
         debounced(hd, Some(LocationHighlight(getLocationId(info.object[1]))),
                   debounceDelay),
       showTooltipDebounced |-> show.showTooltipDebounced]

\* handleHover(info): what it dispatches, and the two debounced functions
\* after it (hd and td are their pending calls before it)
handleHover(s, info, container, hd, td) ==
  CASE info.type = Some("FLOW") ->
         IF info.object # Undefined
           THEN hoverFlow(s, info, container, hd, td)
           ELSE hoverNothing(s, info, container, hd, td)
    [] info.type = Some("LOCATION") ->
         IF info.object # Undefined
           THEN hoverLocation(s, info, container, hd, td)
           ELSE hoverNothing(s, info, container, hd, td)
    [] OTHER -> hoverNothing(s, info, container, hd, td)

-----------------------------------------------------------------------------
(* The view's steps *)

\* the props deliver other locations and flows (or none, while they load); the
\* state is kept by useReducer, and the fit effect runs on the new locations
DatasetChange ==
  /\ \E d \in DatasetInputs \ {dataset}, draftZoom \in DraftZoomInputs :
       /\ dataset' = d
       /\ state' = dispatchAll(state, viewportFitEffect(state, d, draftZoom))
  /\ UNCHANGED <<nSettings, resolved, debounceVars, clockVars>>

\* a click on the flow map layer
HandleClick ==
  /\ \E info \in PickInputs, shiftKey \in BOOLEAN :
       state' = dispatchAll(state,
                  handleClick(info, [srcEvent |-> [shiftKey |-> shiftKey]]))
  /\ UNCHANGED <<nSettings, dataset, resolved, debounceVars, clockVars>>

\* getLayers, once locations and flows are there, calls the resolver with what
\* the two selectors yield
Render ==
  /\ dataset # Undefined
  /\ \E clusterTree \in ClusterIndexInputs, clusterZoom \in ClusterZoomInputs :
       resolved' = Some([highlight |-> state.highlight,
                         clusteringEnabled |-> state.clusteringEnabled,
                         clusterTree |-> clusterTree,
                         clusterZoom |-> clusterZoom,
                         result |-> getHighlightForZoom(state, clusterTree,
                                                        clusterZoom)])
  /\ UNCHANGED <<state, nSettings, dataset, debounceVars, clockVars>>

\* the clustering controls of the settings panel; their values are few, so
\* they are not counted against MaxSettings here
EnableClustering ==
  /\ \E clusteringEnabled \in BOOLEAN :
       Dispatch([type |-> "SET_CLUSTERING_ENABLED",
                 clusteringEnabled |-> clusteringEnabled])
  /\ UNCHANGED <<nSettings, dataset, resolved, debounceVars, clockVars>>

EnableClusteringAuto ==
  /\ Dispatch([type |-> "SET_CLUSTERING_AUTO", clusteringAuto |-> TRUE])
  /\ UNCHANGED <<nSettings, dataset, resolved, debounceVars, clockVars>>

EnableClusteringManual ==
  /\ \E manualClusterZoom \in ManualClusterZoomInputs :
       Dispatch([type |-> "SET_MANUAL_CLUSTER_ZOOM",
                 manualClusterZoom |-> manualClusterZoom])
  /\ UNCHANGED <<nSettings, dataset, resolved, debounceVars, clockVars>>

\* the pointer moves over the flow map layer, which is there with the data
\* the state and the two debounced functions after handleHover(info)
afterHover(info) ==
  LET h == handleHover(state, info, containerBounds,
                       highlightDebounced, showTooltipDebounced)
  IN  [state |-> dispatchAll(state, h.dispatched),
       highlightDebounced |-> h.highlightDebounced,
       showTooltipDebounced |-> h.showTooltipDebounced]

HandleHoverOf(info) ==
  /\ dataset # Undefined
  /\ LET after == afterHover(info)
     IN  /\ state' = after.state
         /\ highlightDebounced' = after.highlightDebounced
         /\ showTooltipDebounced' = after.showTooltipDebounced
  /\ UNCHANGED <<nSettings, dataset, resolved, clockVars>>

HandleHover ==
  /\ \E info \in HoverInputs : HandleHoverOf(info)

\* onMouseLeave of the container
MouseLeave ==
  /\ dataset # Undefined
  /\ LET hide == hideTooltip(showTooltipDebounced)
     IN  /\ state' = dispatchAll(state, hide.dispatched)
         /\ showTooltipDebounced' = hide.showTooltipDebounced
  /\ UNCHANGED <<nSettings, dataset, resolved, highlightDebounced, clockVars>>

\* TickMs milliseconds pass while a debounced call waits
TimePasses ==
  /\ \/ highlightDebounced # Undefined /\ ~isDue(highlightDebounced)
     \/ showTooltipDebounced # Undefined /\ ~isDue(showTooltipDebounced)
  /\ highlightDebounced' = elapse(highlightDebounced, TickMs)
  /\ showTooltipDebounced' = elapse(showTooltipDebounced, TickMs)
  /\ UNCHANGED <<state, nSettings, dataset, resolved, clockVars>>

\* the timer of highlightDebounced runs out: setHighlightAction is called with
\* the arguments of the pending call
FireHighlightDebounced ==
  /\ isDue(highlightDebounced)
  /\ state' = dispatchAll(state, << setHighlightAction(highlightDebounced[1].args) >>)
  /\ highlightDebounced' = Undefined
  /\ UNCHANGED <<nSettings, dataset, resolved, showTooltipDebounced, clockVars>>

\* the timer of showTooltipDebounced runs out: showTooltip is called with the
\* arguments of the pending call.  Timers that are due together run in the
\* order they were set, and handleHover calls highlightDebounced first.
FireShowTooltipDebounced ==
  /\ isDue(showTooltipDebounced)
  /\ ~isDue(highlightDebounced)
  /\ state' = dispatchAll(state, showTooltip(showTooltipDebounced[1].args[1],
                                             showTooltipDebounced[1].args[2],
                                             containerBounds))
  /\ showTooltipDebounced' = Undefined
  /\ UNCHANGED <<nSettings, dataset, resolved, highlightDebounced, clockVars>>

\* the times, in milliseconds, the window calls a frame callback with
FrameTimeInputs ==
  { Num(0), Num(16), Num(45000), Num(89999), Num(90000), Num(180016),
    Frac(1000001, 10) }

\* the animation switch of the settings panel: the dispatch and, after the
\* render, the animation effect
SetAnimationEnabled ==
  /\ mounted
  /\ lastAnimationFrame < MaxFrames
  /\ \E animationEnabled \in BOOLEAN :
       Dispatch([type |-> "SET_ANIMATION_ENABLED",
                 animationEnabled |-> animationEnabled])
  /\ SetClock(animationEffectRerun(state, state', clock))
  /\ UNCHANGED <<nSettings, dataset, resolved, debounceVars, time, mounted>>

\* the window runs the frame request handle with the time frameTime: animate
\* sets the time (of a mounted component) and requests the next frame
AnimationFrameOf(handle, frameTime) ==
  /\ lastAnimationFrame < MaxFrames
  /\ handle \in animationFrames
  /\ LET a == animate(frameTime, cancelAnimationFrame(clock, handle))
     IN  /\ time' = IF mounted THEN a.time ELSE time
         /\ SetClock(a.clock)
  /\ UNCHANGED <<state, nSettings, dataset, resolved, debounceVars, mounted>>

AnimationFrame ==
  /\ \E handle \in animationFrames, frameTime \in FrameTimeInputs :
       AnimationFrameOf(handle, frameTime)

\* the component is torn down: the cleanup of the animation effect runs
Unmount ==
  /\ mounted
  /\ mounted' = FALSE
  /\ SetClock(animationEffectCleanup(clock))
  /\ UNCHANGED <<state, nSettings, dataset, resolved, debounceVars, time>>

\* the component is mounted again with a configuration: new state, new ref,
\* time 0, and the animation effect runs; the window keeps its frame requests
Mount ==
  /\ ~mounted
  /\ lastAnimationFrame < MaxFrames
  /\ mounted' = TRUE
  /\ \E config \in ConfigInputs : state' = getInitialState(config)
  /\ SetClock(animationEffect(state'.animationEnabled,
                              [clock EXCEPT !.requestAnimationFrameRef = Undefined]))
  /\ time' = Num(0)
  /\ nSettings' = 0
  /\ dataset' = Undefined
  /\ resolved' = Undefined
  /\ highlightDebounced' = Undefined
  /\ showTooltipDebounced' = Undefined

\* the highlight resolver at work: data arriving, hovering, switching
\* clustering, rendering
NextResolver ==
  \/ DatasetChange
  \/ DispatchSetHighlight
  \/ EnableClustering
  \/ Render

SpecResolver == Init /\ [][NextResolver]_vars

\* the view in use: data arriving, clicks, hovering and the clustering controls
NextInteraction ==
  \/ DatasetChange
  \/ HandleClick
  \/ DispatchSetHighlight
  \/ DispatchSetTooltip
  \/ EnableClustering
  \/ EnableClusteringAuto
  \/ EnableClusteringManual

SpecInteraction == Init /\ [][NextInteraction]_vars

\* the pointer over the map: data arriving, hovering, leaving, clicking, the
\* map being moved or zoomed, and the debounce timers
NextHover ==
  \/ DatasetChange
  \/ HandleHover
  \/ MouseLeave
  \/ TimePasses
  \/ FireHighlightDebounced
  \/ FireShowTooltipDebounced
  \/ HandleClick
  \/ DispatchSetViewport
  \/ DispatchZoomIn
  \/ DispatchZoomOut

SpecHover == Init /\ [][NextHover]_vars

\* the animation clock at work: the animation switched on and off, frames,
\* teardown and a new mount
NextClock ==
  \/ SetAnimationEnabled
  \/ AnimationFrame
  \/ Unmount
  \/ Mount

SpecClock == Init /\ [][NextClock]_vars

\* setViewStateAction({viewState}): the SET_VIEWPORT action it dispatches,
\* which has no adjustViewportToLocations
setViewStateAction(props) ==
  [type |-> "SET_VIEWPORT", viewport |-> props.viewState,
   adjustViewportToLocations |-> Undefined]

\* onViewStateChange of the map: the user pans, zooms or rotates.  The map is
\* rendered whenever locationsFetch is neither loading nor failed, with or
\* without a value
ViewStateChange ==
  /\ \E viewState \in ViewportInputs :
       Dispatch(setViewStateAction([viewState |-> viewState]))
  /\ UNCHANGED <<nSettings, dataset, resolved, debounceVars, clockVars>>

\* the viewport fit at work: data arriving, the user moving the map, the zoom
\* buttons and clicks
NextFit ==
  \/ DatasetChange
  \/ ViewStateChange
  \/ DispatchZoomIn
  \/ DispatchZoomOut
  \/ HandleClick

SpecFit == Init /\ [][NextFit]_vars

-----------------------------------------------------------------------------
(* Properties *)

InZoomRange(z) == FracLE(Num(MIN_ZOOM_LEVEL), z) /\ FracLE(z, Num(MAX_ZOOM_LEVEL))

\* min(20, max(0, z)) spelt out by cases
Clamped(z) ==
  IF FracLT(z, Num(MIN_ZOOM_LEVEL)) THEN Num(MIN_ZOOM_LEVEL)
  ELSE IF FracLT(Num(MAX_ZOOM_LEVEL), z) THEN Num(MAX_ZOOM_LEVEL)
  ELSE z

\* the ids of a selection, as a set
SelectedSet(sel) == IF sel = Undefined THEN {} ELSE { sel[1][i] : i \in 1..Len(sel[1]) }

\* C1: in every reachable state viewport.zoom is within [MIN_ZOOM_LEVEL,
\* MAX_ZOOM_LEVEL] = [0, 20], and SET_VIEWPORT with zoom z stores
\* min(20, max(0, z)) (25 gives 20).
C1_ZoomWithinBounds ==
  /\ InZoomRange(state.viewport.zoom)
  /\ \A a \in SetViewportActions :
       reducer(state, a).viewport.zoom = Clamped(a.viewport.zoom)
  /\ \A a \in SetViewportActions :
       a.viewport.zoom = Num(25) => reducer(state, a).viewport.zoom = Num(20)

\* C1 witness: a zoom of exactly 20 is stored, which only a clamp produces (the
\* viewports dispatched have zoom -3, 19 or 25), and SET_VIEWPORT with zoom 25
\* applies to it.
C1_Witness ==
  /\ state.viewport.zoom = Num(MAX_ZOOM_LEVEL)
  /\ \E a \in SetViewportActions :
       a.viewport.zoom = Num(25) /\ reducer(state, a).viewport.zoom = Num(20)

C3_ViewportActionsClearTooltipAndHighlight ==
  \A a \in SetViewportActions \cup {ZoomInAction, ZoomOutAction} :
    /\ reducer(state, a).tooltip = Undefined
    /\ reducer(state, a).highlight = Undefined

\* C3 witness: a state with a tooltip and a highlight, which each of the three
\* actions clears.
C3_Witness ==
  /\ state.tooltip # Undefined
  /\ state.highlight # Undefined
  /\ reducer(state, ZoomInAction).tooltip = Undefined
  /\ reducer(state, ZoomOutAction).highlight = Undefined
  /\ \E a \in SetViewportActions : reducer(state, a).tooltip = Undefined

\* C4: every transition whose resulting selectedLocations differs from the
\* input's leaves highlight and tooltip undefined.
C4_SelectionChangeClearsHighlightAndTooltip ==
  [][ state'.selectedLocations # state.selectedLocations
        => state'.highlight = Undefined /\ state'.tooltip = Undefined ]_vars

\* C5: every transition whose resulting viewport differs from the input's
\* leaves highlight undefined.
C5_ViewportChangeClearsHighlight ==
  [][ state'.viewport # state.viewport => state'.highlight = Undefined ]_vars

\* what SELECT_LOCATION(id, incremental) is to make of a selection: the id
\* filtered out when it is selected (undefined when nothing is left), appended
\* when it is not and incremental is set, and alone otherwise
Toggled(sel, id, incremental) ==
  LET ids == IF sel = Undefined THEN << >> ELSE sel[1]
      Other(x) == x # id
      without == SelectSeq(ids, Other)
  IN IF id \in SelectedSet(sel)
       THEN IF without = << >> THEN Undefined ELSE Some(without)
       ELSE IF sel # Undefined /\ incremental
              THEN Some(ids \o <<id>>)
              ELSE Some(<<id>>)

\* C6: SELECT_LOCATION(id, incremental) toggles membership: a selected id is
\* removed (an emptied selection becomes undefined and the filter mode ALL), an
\* id that is not selected is appended when incremental and replaces the
\* selection otherwise, and with no selection the result is [id]; from no
\* selection, A (not incremental), B (incremental), A (incremental) give [A],
\* [A,B], [B].
C6_SelectLocationToggles ==
  /\ \A a \in SelectLocationActions :
       LET next == reducer(state, a)
       IN /\ next.selectedLocations
               = Toggled(state.selectedLocations, a.locationId, a.incremental)
          /\ next.locationFilterMode
               = IF next.selectedLocations = Undefined
                   THEN "ALL" ELSE state.locationFilterMode
  /\ \A config \in ConfigInputs :
       LET s1 == reducer(getInitialState(config), SelectLocationAction("A", FALSE))
           s2 == reducer(s1, SelectLocationAction("B", TRUE))
           s3 == reducer(s2, SelectLocationAction("A", TRUE))
       IN /\ s1.selectedLocations = Some(<<"A">>)
          /\ s2.selectedLocations = Some(<<"A", "B">>)
          /\ s3.selectedLocations = Some(<<"B">>)

\* C6 witness: the selection [A, B] under a filter mode other than ALL, from
\* which selecting A leaves [B] and then selecting B leaves no selection and
\* the mode ALL.
C6_Witness ==
  /\ state.selectedLocations = Some(<<"A", "B">>)
  /\ state.locationFilterMode = "BETWEEN"
  /\ LET s1 == reducer(state, SelectLocationAction("A", TRUE))
         s2 == reducer(s1, SelectLocationAction("B", TRUE))
     IN /\ s1.selectedLocations = Some(<<"B">>)
        /\ s1.locationFilterMode = "BETWEEN"
        /\ s2.selectedLocations = Undefined
        /\ s2.locationFilterMode = "ALL"

\* C7: toggle law: SELECT_LOCATION(X, incremental = true) applied twice in a row
\* yields a selection equal, as a set, to the selection before.
C7_ToggleLaw ==
  \A id \in LocationIds :
    LET once == reducer(state, SelectLocationAction(id, TRUE))
        twice == reducer(once, SelectLocationAction(id, TRUE))
    IN SelectedSet(twice.selectedLocations) = SelectedSet(state.selectedLocations)

\* C7 witness: the selection [A, B], which selecting A twice turns into [B] and
\* then [B, A]: another list, the same set.
C7_Witness ==
  /\ state.selectedLocations = Some(<<"A", "B">>)
  /\ LET once == reducer(state, SelectLocationAction("A", TRUE))
         twice == reducer(once, SelectLocationAction("A", TRUE))
     IN /\ once.selectedLocations = Some(<<"B">>)
        /\ twice.selectedLocations = Some(<<"B", "A">>)

\* C8: SET_SELECTED_LOCATIONS with an empty list or undefined, and
\* CLEAR_SELECTION, agree on selectedLocations (undefined) and on
\* locationFilterMode (ALL).
C8_EmptySelectionLikeClearSelection ==
  \A sel \in {Undefined, Some(<< >>)} :
    LET set == reducer(state, SetSelectedLocationsAction(sel))
        clear == reducer(state, ClearSelectionAction)
    IN /\ set.selectedLocations = clear.selectedLocations
       /\ set.locationFilterMode = clear.locationFilterMode
       /\ set.selectedLocations = Undefined
       /\ set.locationFilterMode = "ALL"

\* C8 witness: a state with a selection and a filter mode other than ALL, which
\* SET_SELECTED_LOCATIONS([]) and CLEAR_SELECTION both reset.
C8_Witness ==
  /\ state.selectedLocations # Undefined
  /\ state.locationFilterMode # "ALL"
  /\ reducer(state, SetSelectedLocationsAction(Some(<< >>))).locationFilterMode = "ALL"
  /\ reducer(state, ClearSelectionAction).locationFilterMode = "ALL"

\* C9: in every reachable state selectedLocations is undefined or a non-empty
\* list: an empty selection is never stored.
C9_NoEmptySelection ==
  \/ state.selectedLocations = Undefined
  \/ Len(state.selectedLocations[1]) >= 1

\* C9 witness: the selection [A], whose last id SELECT_LOCATION removes and
\* which SET_SELECTED_LOCATIONS([]) empties; both store undefined.
C9_Witness ==
  /\ state.selectedLocations = Some(<<"A">>)
  /\ reducer(state, SelectLocationAction("A", TRUE)).selectedLocations = Undefined
  /\ reducer(state, SetSelectedLocationsAction(Some(<< >>))).selectedLocations
       = Undefined

\* C10 as stated: in every reachable state, no selection implies the filter
\* mode ALL.
C10_NoSelectionImpliesModeAll ==
  state.selectedLocations = Undefined => state.locationFilterMode = "ALL"

\* C10 amended: the initial state has no selection and the mode ALL; every
\* action other than SET_LOCATION_FILTER_MODE keeps "no selection implies mode
\* ALL", and CLEAR_SELECTION, SET_SELECTED_LOCATIONS and SELECT_LOCATION store
\* ALL whenever they leave no selection.  (SET_LOCATION_FILTER_MODE stores its
\* mode whatever the selection.)
C10_NoSelectionImpliesModeAllButForSetMode ==
  /\ \A config \in ConfigInputs :
       /\ getInitialState(config).selectedLocations = Undefined
       /\ getInitialState(config).locationFilterMode = "ALL"
  /\ \A a \in Actions \ SetLocationFilterModeActions :
       LET next == reducer(state, a)
       IN (state.selectedLocations = Undefined => state.locationFilterMode = "ALL")
            => (next.selectedLocations = Undefined => next.locationFilterMode = "ALL")
  /\ \A a \in {ClearSelectionAction} \cup SetSelectedLocationsActions
                \cup SelectLocationActions :
       LET next == reducer(state, a)
       IN next.selectedLocations = Undefined => next.locationFilterMode = "ALL"

\* C10 witness: the selection [A] under the mode INCOMING, whose last id
\* SELECT_LOCATION removes, storing the mode ALL.
C10_Witness ==
  /\ state.selectedLocations = Some(<<"A">>)
  /\ state.locationFilterMode = "INCOMING"
  /\ LET next == reducer(state, SelectLocationAction("A", FALSE))
     IN /\ next.selectedLocations = Undefined
        /\ next.locationFilterMode = "ALL"

\* C11: SET_MANUAL_CLUSTER_ZOOM(z), from any state, yields clusteringAuto =
\* false and manualClusterZoom = z in the same transition and leaves every
\* other field unchanged.
C11_ManualClusterZoomForcesAutoOff ==
  \A a \in ActionsOfType("SET_MANUAL_CLUSTER_ZOOM") :
    reducer(state, a)
      = [state EXCEPT !.clusteringAuto = FALSE,
                      !.manualClusterZoom = a.manualClusterZoom]

\* C11 witness: SET_MANUAL_CLUSTER_ZOOM(5) has acted on the initial state, whose
\* clusteringAuto is true: the zoom is stored, clusteringAuto is false and all
\* the rest is as it was.
C11_Witness ==
  state = [getInitialState(DEFAULT_CONFIG) EXCEPT !.clusteringAuto = FALSE,
                                                 !.manualClusterZoom = Some(5)]

\* C12 as stated: in every reachable state manualClusterZoom is present only
\* when clusteringAuto is false.
C12_ManualClusterZoomOnlyWhenNotAuto ==
  state.manualClusterZoom # Undefined => ~state.clusteringAuto

\* C12 amended: the initial state has no manualClusterZoom; SET_MANUAL_CLUSTER_ZOOM
\* stores clusteringAuto = false; every action other than SET_CLUSTERING_AUTO
\* keeps "manualClusterZoom present implies clusteringAuto false";
\* SET_CLUSTERING_AUTO leaves manualClusterZoom as it is (so that switching
\* back to auto keeps the manual zoom that was set).
C12_ManualClusterZoomKeptBySetAuto ==
  /\ \A config \in ConfigInputs :
       getInitialState(config).manualClusterZoom = Undefined
  /\ \A a \in ActionsOfType("SET_MANUAL_CLUSTER_ZOOM") :
       ~reducer(state, a).clusteringAuto
  /\ \A a \in Actions \ ActionsOfType("SET_CLUSTERING_AUTO") :
       LET next == reducer(state, a)
       IN (state.manualClusterZoom # Undefined => ~state.clusteringAuto)
            => (next.manualClusterZoom # Undefined => ~next.clusteringAuto)
  /\ \A a \in ActionsOfType("SET_CLUSTERING_AUTO") :
       LET next == reducer(state, a)
       IN /\ next.manualClusterZoom = state.manualClusterZoom
          /\ next.clusteringAuto = a.clusteringAuto

\* C12 witness: after a manual cluster zoom was set and clustering switched
\* back to auto, the manual zoom is still stored.
C12_Witness ==
  /\ state.clusteringAuto
  /\ state.manualClusterZoom = Some(5)

\* a value of the State type, as far as the model carries it
IsState(s) ==
  /\ DOMAIN s = DOMAIN getInitialState(DEFAULT_CONFIG)
  /\ DOMAIN s.viewport = DOMAIN DEFAULT_VIEWPORT
  /\ s.viewport.zoom.n \in Int /\ s.viewport.zoom.d \in Nat \ {0}
  /\ s.viewport.bearing \in Int /\ s.viewport.pitch \in Int
  /\ s.adjustViewportToLocations \in BOOLEAN
  /\ s.tooltip \in TooltipInputs
  /\ s.highlight \in HighlightInputs
  /\ \/ s.selectedLocations = Undefined
     \/ /\ Len(s.selectedLocations) = 1
        /\ s.selectedLocations[1] \in Seq(LocationIds)
  /\ s.locationFilterMode \in LocationFilterMode
  /\ s.selectedTimeRange \in {Undefined} \cup { Some(r) : r \in TimeRangeInputs }
  /\ s.clusteringEnabled \in BOOLEAN /\ s.clusteringAuto \in BOOLEAN
  /\ s.manualClusterZoom \in ManualClusterZoomInputs
  /\ s.animationEnabled \in BOOLEAN /\ s.locationTotalsEnabled \in BOOLEAN
  /\ s.adaptiveScalesEnabled \in BOOLEAN /\ s.darkMode \in BOOLEAN
  /\ s.fadeEnabled \in BOOLEAN /\ s.baseMapEnabled \in BOOLEAN
  /\ s.fadeAmount \in Nat /\ s.baseMapOpacity \in Nat

\* C13: the reducer is total: for every state and every action, an action of
\* an unknown kind included, it returns a state; for an unknown kind the state
\* returned is the input state.  (The input is a value here: no transition can
\* modify it.)
C13_ReducerTotal ==
  /\ \A a \in Actions : IsState(reducer(state, a))
  /\ reducer(state, UnknownAction) = state

\* C13 witness: a state with a selection, a highlight and a tooltip, which an
\* action of an unknown kind returns as it is and SELECT_LOCATION turns into
\* another state.
C13_Witness ==
  /\ state.selectedLocations = Some(<<"A">>)
  /\ state.highlight # Undefined
  /\ state.tooltip # Undefined
  /\ reducer(state, UnknownAction) = state
  /\ reducer(state, SelectLocationAction("A", TRUE)) # state
  /\ IsState(reducer(state, SelectLocationAction("A", TRUE)))

\* the plain setters: the field each one replaces and the value it stores
SetterField(type) ==
  CASE type = "SET_HIGHLIGHT" -> "highlight"
    [] type = "SET_TOOLTIP" -> "tooltip"
    [] type = "SET_LOCATION_FILTER_MODE" -> "locationFilterMode"
    [] type = "SET_TIME_RANGE" -> "selectedTimeRange"
    [] type = "SET_CLUSTERING_ENABLED" -> "clusteringEnabled"
    [] type = "SET_CLUSTERING_AUTO" -> "clusteringAuto"
    [] type = "SET_ANIMATION_ENABLED" -> "animationEnabled"
    [] type = "SET_LOCATION_TOTALS_ENABLED" -> "locationTotalsEnabled"
    [] type = "SET_ADAPTIVE_SCALES_ENABLED" -> "adaptiveScalesEnabled"
    [] type = "SET_DARK_MODE" -> "darkMode"
    [] type = "SET_FADE_ENABLED" -> "fadeEnabled"
    [] type = "SET_BASE_MAP_ENABLED" -> "baseMapEnabled"
    [] type = "SET_FADE_AMOUNT" -> "fadeAmount"
    [] type = "SET_BASE_MAP_OPACITY" -> "baseMapOpacity"
    [] type = "SET_COLOR_SCHEME" -> "colorSchemeKey"

SetterValue(a) ==
  CASE a.type = "SET_HIGHLIGHT" -> a.highlight
    [] a.type = "SET_TOOLTIP" -> a.tooltip
    [] a.type = "SET_LOCATION_FILTER_MODE" -> a.mode
    [] a.type = "SET_TIME_RANGE" -> Some(a.range)
    [] a.type = "SET_CLUSTERING_ENABLED" -> a.clusteringEnabled
    [] a.type = "SET_CLUSTERING_AUTO" -> a.clusteringAuto
    [] a.type = "SET_ANIMATION_ENABLED" -> a.animationEnabled
    [] a.type = "SET_LOCATION_TOTALS_ENABLED" -> a.locationTotalsEnabled
    [] a.type = "SET_ADAPTIVE_SCALES_ENABLED" -> a.adaptiveScalesEnabled
    [] a.type = "SET_DARK_MODE" -> a.darkMode
    [] a.type = "SET_FADE_ENABLED" -> a.fadeEnabled
    [] a.type = "SET_BASE_MAP_ENABLED" -> a.baseMapEnabled
    [] a.type = "SET_FADE_AMOUNT" -> a.fadeAmount
    [] a.type = "SET_BASE_MAP_OPACITY" -> a.baseMapOpacity
    [] a.type = "SET_COLOR_SCHEME" -> Some(a.colorSchemeKey)

PlainSetterActions ==
  SetHighlightActions \cup SetTooltipActions \cup SetLocationFilterModeActions
  \cup (SettingActions \ ActionsOfType("SET_MANUAL_CLUSTER_ZOOM"))

\* C14: each plain setter (SET_HIGHLIGHT, SET_TOOLTIP, SET_LOCATION_FILTER_MODE,
\* SET_TIME_RANGE and the display-setting setters but SET_MANUAL_CLUSTER_ZOOM)
\* replaces exactly its one field with the action's value and leaves every
\* other field of the state unchanged.
C14_PlainSettersReplaceOneField ==
  \A a \in PlainSetterActions :
    LET next == reducer(state, a)
        field == SetterField(a.type)
    IN /\ next[field] = SetterValue(a)
       /\ \A f \in DOMAIN state \ {field} : next[f] = state[f]
       /\ DOMAIN next = DOMAIN state

\* C14 witness: a state with a selection, a highlight and a tooltip on which
\* SET_FADE_AMOUNT(30) changes fadeAmount (50 before) and nothing else.
C14_Witness ==
  /\ state.selectedLocations # Undefined
  /\ state.highlight # Undefined
  /\ state.tooltip # Undefined
  /\ state.fadeAmount = 50
  /\ reducer(state, [type |-> "SET_FADE_AMOUNT", fadeAmount |-> 30])
       = [state EXCEPT !.fadeAmount = 30]

\* C15: when the dataset the props carry changes during the lifetime of the
\* view (from one loaded dataset to another), the state is reset: selection,
\* highlight and tooltip are cleared and the viewport fit is applied once more,
\* so the state after the change is the initial state with a fitted viewport.
C15_DatasetChangeResetsState ==
  [][ (dataset # Undefined /\ dataset' # Undefined /\ dataset' # dataset)
        => /\ state'.selectedLocations = Undefined
           /\ state'.highlight = Undefined
           /\ state'.tooltip = Undefined
           /\ \E draftZoom \in DraftZoomInputs :
                state'.viewport = fitViewport(draftZoom)
           /\ ~state'.adjustViewportToLocations ]_vars

\* validity of an id for a cluster zoom, as the specification words it: a
\* cluster of the index is valid when its zoom is the cluster zoom; any other
\* id when its minimum standalone zoom is undefined or at most the cluster zoom
ValidForClusterZoom(index, zoom, id) ==
  \/ /\ index.clusterById[id] # Undefined
     /\ index.clusterById[id][1].zoom = zoom
  \/ /\ index.clusterById[id] = Undefined
     /\ \/ index.minZoomForLocation[id] = Undefined
        \/ index.minZoomForLocation[id][1] <= zoom

\* a call of the resolver that got past its guards: a highlight, clustering
\* enabled, a cluster index and a cluster zoom
Validating(r) ==
  /\ r.highlight # Undefined
  /\ r.clusteringEnabled
  /\ r.clusterTree # Undefined
  /\ r.clusterZoom # Undefined

\* C16: resolver guards: with no highlight or with clustering disabled the
\* resolver returns the state's highlight unchanged, whatever the cluster index
\* and the cluster zoom; otherwise, with the cluster index or the cluster zoom
\* unavailable, it returns undefined.
C16_ResolverGuards ==
  resolved # Undefined =>
    LET r == resolved[1]
    IN /\ (r.highlight = Undefined \/ ~r.clusteringEnabled)
            => r.result = r.highlight
       /\ (/\ r.highlight # Undefined
           /\ r.clusteringEnabled
           /\ (r.clusterTree = Undefined \/ r.clusterZoom = Undefined))
            => r.result = Undefined

\* C16 witness: a highlight resolved with clustering enabled and no cluster
\* index: it is suppressed.
C16_Witness ==
  /\ resolved # Undefined
  /\ resolved[1].highlight # Undefined
  /\ resolved[1].clusteringEnabled
  /\ resolved[1].clusterTree = Undefined
  /\ resolved[1].clusterZoom # Undefined
  /\ resolved[1].result = Undefined

\* C17: with clustering enabled and the cluster index and cluster zoom
\* available, a LOCATION highlight is returned if and only if its locationId
\* is valid for the cluster zoom; otherwise the resolver returns undefined.
C17_LocationHighlightIffValid ==
  (resolved # Undefined /\ Validating(resolved[1])
     /\ resolved[1].highlight[1].type = "location") =>
    LET r == resolved[1]
        valid == ValidForClusterZoom(r.clusterTree[1], r.clusterZoom[1],
                                     r.highlight[1].locationId)
    IN /\ valid => r.result = r.highlight
       /\ ~valid => r.result = Undefined

\* C17 witness: a LOCATION highlight of a location that stands alone from zoom
\* 5 on, resolved at cluster zoom 4: it is suppressed.
C17_Witness ==
  /\ resolved # Undefined
  /\ Validating(resolved[1])
  /\ resolved[1].highlight = Some(LocationHighlight("A"))
  /\ resolved[1].clusterTree[1].clusterById["A"] = Undefined
  /\ resolved[1].clusterTree[1].minZoomForLocation["A"] = Some(5)
  /\ resolved[1].clusterZoom = Some(4)
  /\ resolved[1].result = Undefined

\* C18: with clustering enabled and the cluster index and cluster zoom
\* available, a FLOW highlight is returned only if both its origin and its
\* destination are valid for the cluster zoom; if one endpoint or both fail,
\* the resolver returns undefined; and resolving leaves the state, with the
\* highlight stored in it, untouched.
C18_FlowHighlightNeedsBothEndpoints ==
  /\ [] ((resolved # Undefined /\ Validating(resolved[1])
            /\ resolved[1].highlight[1].type = "flow") =>
           LET r == resolved[1]
               flow == r.highlight[1].flow
               bothValid ==
                 /\ ValidForClusterZoom(r.clusterTree[1], r.clusterZoom[1], flow.origin)
                 /\ ValidForClusterZoom(r.clusterTree[1], r.clusterZoom[1], flow.dest)
           IN /\ bothValid => r.result = r.highlight
              /\ ~bothValid => r.result = Undefined)
  /\ [][resolved' # resolved => state' = state]_vars

\* C18 witness: a FLOW highlight whose origin is valid and whose destination is
\* not (it stands alone from zoom 5 on, the cluster zoom is 4) has been resolved
\* to undefined, and the state still holds the highlight.
C18_Witness ==
  /\ resolved # Undefined
  /\ Validating(resolved[1])
  /\ resolved[1].highlight = Some(FlowHighlight("A", "B"))
  /\ ValidForClusterZoom(resolved[1].clusterTree[1], resolved[1].clusterZoom[1], "A")
  /\ ~ValidForClusterZoom(resolved[1].clusterTree[1], resolved[1].clusterZoom[1], "B")
  /\ resolved[1].result = Undefined
  /\ state.highlight = Some(FlowHighlight("A", "B"))

\* C19 as stated: a LOCATION highlight whose id has an undefined minimum
\* standalone zoom in the cluster index is returned unchanged at every cluster
\* zoom, whatever the index reports for that id as a cluster.
C19_UndefinedMinZoomAlwaysValid ==
  (resolved # Undefined /\ Validating(resolved[1])
     /\ resolved[1].highlight[1].type = "location"
     /\ resolved[1].clusterTree[1].minZoomForLocation[
          resolved[1].highlight[1].locationId] = Undefined)
    => resolved[1].result = resolved[1].highlight

\* C19 amended: a LOCATION highlight whose id is not a cluster of the index and
\* has an undefined minimum standalone zoom is returned unchanged at every
\* cluster zoom; when the id is a cluster of the index, it is returned only at
\* the cluster's own zoom, whatever its minimum standalone zoom.
C19_UndefinedMinZoomValidUnlessCluster ==
  (resolved # Undefined /\ Validating(resolved[1])
     /\ resolved[1].highlight[1].type = "location") =>
    LET r == resolved[1]
        id == r.highlight[1].locationId
        cluster == r.clusterTree[1].clusterById[id]
        minZoom == r.clusterTree[1].minZoomForLocation[id]
    IN /\ (cluster = Undefined /\ minZoom = Undefined) => r.result = r.highlight
       /\ cluster # Undefined =>
            r.result = IF cluster[1].zoom = r.clusterZoom[1]
                         THEN r.highlight ELSE Undefined

\* C19 witness: a LOCATION highlight of an id that is no cluster and has no
\* minimum standalone zoom, returned unchanged at cluster zoom 4.
C19_Witness ==
  /\ resolved # Undefined
  /\ Validating(resolved[1])
  /\ resolved[1].highlight = Some(LocationHighlight("A"))
  /\ resolved[1].clusterTree[1].clusterById["A"] = Undefined
  /\ resolved[1].clusterTree[1].minZoomForLocation["A"] = Undefined
  /\ resolved[1].clusterZoom = Some(4)
  /\ resolved[1].result = Some(LocationHighlight("A"))

\* C20: a click dispatches SELECT_LOCATION only when the pick kind is LOCATION
\* or LOCATION_AREA and a picked object is present, with locationId the picked
\* object's id and incremental the shift-key state of the pointer event; a
\* click with a FLOW pick, with no pick or with no object dispatches nothing
\* and leaves the state unchanged.
C20_ClickSelectsLocation ==
  \A info \in PickInputs, shiftKey \in BOOLEAN :
    LET dispatched == handleClick(info, [srcEvent |-> [shiftKey |-> shiftKey]])
        selects == /\ info.type \in {Some("LOCATION"), Some("LOCATION_AREA")}
                   /\ info.object # Undefined
    IN /\ selects =>
            dispatched = << [type |-> "SELECT_LOCATION",
                             locationId |-> info.object[1].id,
                             incremental |-> shiftKey] >>
       /\ ~selects =>
            /\ dispatched = << >>
            /\ dispatchAll(state, dispatched) = state

\* C20 witness: the selection [A, B], which in the view comes only from a click
\* on A followed by a shift-click on B.
C20_Witness ==
  /\ state.selectedLocations = Some(<<"A", "B">>)
  /\ handleClick([type |-> Some("LOCATION_AREA"), object |-> Some([id |-> "A"])],
                 [srcEvent |-> [shiftKey |-> TRUE]])
       = << SelectLocationAction("A", TRUE) >>

-----------------------------------------------------------------------------
(* The hover coordinator and the debounced functions *)

\* a hover that carries an object the coordinator shows a tooltip for
ObjectHovers ==
  { info \in HoverInputs :
      info.object # Undefined /\ info.type \in {Some("FLOW"), Some("LOCATION")} }

\* the tooltip content is about the object of the hover
ContentIsFor(content, info) ==
  IF info.type = Some("FLOW")
    THEN content.component = "FlowTooltipContent" /\ content.flow = info.object[1]
    ELSE /\ content.component = "LocationTooltipContent"
         /\ content.locationInfo = info.object[1]

\* C21: in every state with the layer there, a hover on a flow or a location
\* while no tooltip is shown leaves the tooltip hidden and makes the show
\* pending for the whole debounce delay; a hover while a tooltip is shown
\* replaces the tooltip in the same step and leaves no show pending; and a
\* hidden tooltip appears only when the pending show has waited out its
\* delay, with the content of the last hover.
C21_TooltipDebouncing ==
  /\ [] ( dataset # Undefined =>
            \A info \in ObjectHovers :
              LET after == afterHover(info)
              IN  IF state.tooltip = Undefined
                    THEN /\ after.state.tooltip = Undefined
                         /\ after.showTooltipDebounced # Undefined
                         /\ after.showTooltipDebounced[1].remaining = debounceDelay
                         /\ ContentIsFor(after.showTooltipDebounced[1].args[2], info)
                    ELSE /\ after.state.tooltip # Undefined
                         /\ ContentIsFor(after.state.tooltip[1].content, info)
                         /\ after.showTooltipDebounced = Undefined )
  /\ [][ (state.tooltip = Undefined /\ state'.tooltip # Undefined) =>
           /\ isDue(showTooltipDebounced)
           /\ state'.tooltip[1].content = showTooltipDebounced[1].args[2]
           /\ showTooltipDebounced' = Undefined ]_vars

\* a location tooltip has replaced another tooltip at once: the highlight is
\* still the flow and the location highlight has its whole delay to wait
C21_Witness ==
  /\ state.tooltip # Undefined
  /\ state.tooltip[1].content.component = "LocationTooltipContent"
  /\ state.highlight = Some(FlowHighlight("A", "B"))
  /\ highlightDebounced # Undefined
  /\ highlightDebounced[1].remaining = debounceDelay
  /\ showTooltipDebounced = Undefined

\* C22: in every state reached by hovers, clicks, viewport changes, zoom
\* buttons, mouse-leave and the debounce timers, a tooltip is there only while
\* a highlight is: state.tooltip defined implies state.highlight defined.
C22_TooltipOnlyWithHighlight ==
  state.tooltip # Undefined => state.highlight # Undefined

\* a step in which a debounced function is called: its pending call is not
\* the one before the step, nor the one before with less time left
IsCalled(before, after) ==
  /\ after # Undefined
  /\ after # before
  /\ after # elapse(before, TickMs)

\* C23: a debounced function has at most one call pending; a call replaces
\* the pending call by its own arguments and starts the whole delay again
\* without invoking the wrapped function (a location hover leaves the
\* highlight as it is); the wrapped function is invoked only when the delay of
\* the pending call has run out, with the arguments of that call, the last
\* one made, and nothing is pending after it; passing time keeps the pending
\* arguments.
C23_DebounceCoalesces ==
  /\ [](Len(highlightDebounced) <= 1 /\ Len(showTooltipDebounced) <= 1)
  /\ [][ /\ IsCalled(highlightDebounced, highlightDebounced') =>
              /\ highlightDebounced'[1].remaining = debounceDelay
              /\ state'.highlight = state.highlight
         /\ IsCalled(showTooltipDebounced, showTooltipDebounced') =>
              /\ showTooltipDebounced'[1].remaining = debounceDelay
              /\ state'.tooltip = state.tooltip ]_vars
  /\ [] ( dataset # Undefined =>
            \A info \in ObjectHovers :
              info.type = Some("LOCATION") =>
                /\ afterHover(info).highlightDebounced # Undefined
                /\ afterHover(info).highlightDebounced[1].args =
                     Some(LocationHighlight(info.object[1].id)) )
  /\ [][ ( /\ state'.highlight # state.highlight
           /\ state'.highlight # Undefined
           /\ state'.highlight[1].type = "location" ) =>
             /\ isDue(highlightDebounced)
             /\ state'.highlight = highlightDebounced[1].args
             /\ highlightDebounced' = Undefined ]_vars
  /\ [][ TimePasses =>
           /\ highlightDebounced # Undefined =>
                highlightDebounced'[1].args = highlightDebounced[1].args
           /\ showTooltipDebounced # Undefined =>
                showTooltipDebounced'[1].args = showTooltipDebounced[1].args ]_vars

\* the highlight of location B is pending, part of its delay has passed, and
\* the highlight is still location A, set by an earlier pending call
C23_Witness ==
  /\ highlightDebounced # Undefined
  /\ highlightDebounced[1].args = Some(LocationHighlight("B"))
  /\ highlightDebounced[1].remaining > 0
  /\ highlightDebounced[1].remaining < debounceDelay
  /\ state.highlight = Some(LocationHighlight("A"))

\* C24: cancel before the delay has run out leaves nothing pending, so the
\* wrapped function is not invoked for that call: in every state hideTooltip
\* leaves no show pending (none whose timer could run out) and the tooltip
\* hidden, and with nothing pending and no tooltip it changes nothing; a
\* mouse-leave leaves the highlight and its pending call alone; and while no
\* show is pending a hidden tooltip stays hidden.
C24_DebounceCancel ==
  /\ [] LET hide == hideTooltip(showTooltipDebounced)
        IN  /\ hide.showTooltipDebounced = Undefined
            /\ ~isDue(hide.showTooltipDebounced)
            /\ dispatchAll(state, hide.dispatched).tooltip = Undefined
            /\ (showTooltipDebounced = Undefined /\ state.tooltip = Undefined)
                 => /\ dispatchAll(state, hide.dispatched) = state
                    /\ hide.showTooltipDebounced = showTooltipDebounced
  /\ [][ MouseLeave =>
           /\ showTooltipDebounced' = Undefined
           /\ state'.tooltip = Undefined
           /\ state'.highlight = state.highlight
           /\ highlightDebounced' = highlightDebounced ]_vars
  /\ [][ (showTooltipDebounced = Undefined /\ state.tooltip = Undefined) =>
           state'.tooltip = Undefined ]_vars

\* the show of a location tooltip was cancelled while the highlight made
\* pending by the same hover still waits
C24_Witness ==
  /\ showTooltipDebounced = Undefined
  /\ state.tooltip = Undefined
  /\ state.highlight = Undefined
  /\ highlightDebounced # Undefined
  /\ highlightDebounced[1].remaining < debounceDelay

\* the hover with pick ty and object ob
HoverOf(ty, ob) == [type |-> ty, object |-> ob, x |-> 10, y |-> 20, circleRadius |-> 3]

IsLocationHighlight(h) == h # Undefined /\ h[1].type = "location"

\* C28: in every state with the layer there, a hover on a flow sets
\* state.highlight to that flow in the same step and leaves no highlight call
\* pending; and while no highlight call is
\* pending no step makes a location the highlight, so a location hovered
\* earlier does not replace the flow highlight.
C28_FlowHoverHighlightsAtOnce ==
  /\ [] ( dataset # Undefined =>
            \A info \in ObjectHovers :
              info.type = Some("FLOW") =>
                /\ afterHover(info).state.highlight =
                     Some([type |-> "flow", flow |-> info.object[1]])
                /\ afterHover(info).highlightDebounced = Undefined )
  /\ [][ (highlightDebounced = Undefined /\ ~IsLocationHighlight(state.highlight)) =>
           ~IsLocationHighlight(state'.highlight) ]_vars

\* the highlight of location A is pending, and a hover on the flow from here
\* sets the flow highlight and leaves nothing pending
C28_Witness ==
  /\ dataset # Undefined
  /\ highlightDebounced # Undefined
  /\ highlightDebounced[1].args = Some(LocationHighlight("A"))
  /\ highlightDebounced[1].remaining < debounceDelay
  /\ LET h == handleHover(state, HoverOf(Some("FLOW"), Some([origin |-> "A", dest |-> "B"])),
                          containerBounds, highlightDebounced, showTooltipDebounced)
     IN  /\ h.highlightDebounced = Undefined
         /\ dispatchAll(state, h.dispatched).highlight = Some(FlowHighlight("A", "B"))

\* C29: in every state with the layer there, a hover on a location leaves
\* state.highlight as it is and makes the
\* highlight of that location pending for the whole delay; every other hover
\* leaves no highlight call pending, so after any hover only the location of
\* that hover can be pending; and a location becomes the highlight only when
\* the pending call for it has waited out its delay.
C29_LocationHoverHighlightsAfterDelay ==
  /\ [] ( dataset # Undefined =>
            \A info \in HoverInputs :
              IF info \in ObjectHovers /\ info.type = Some("LOCATION")
                THEN /\ afterHover(info).state.highlight = state.highlight
                     /\ afterHover(info).highlightDebounced =
                          Some([args |-> Some(LocationHighlight(info.object[1].id)),
                                remaining |-> debounceDelay])
                ELSE afterHover(info).highlightDebounced = Undefined )
  /\ [][ \A id \in LocationIds :
           ( /\ state'.highlight = Some(LocationHighlight(id))
             /\ state.highlight # state'.highlight ) =>
               /\ highlightDebounced # Undefined
               /\ highlightDebounced[1].remaining = 0
               /\ highlightDebounced[1].args = Some(LocationHighlight(id)) ]_vars

\* the pending highlight of location A has fired before the show of its
\* tooltip, which is due
C29_Witness ==
  /\ state.highlight = Some(LocationHighlight("A"))
  /\ highlightDebounced = Undefined
  /\ isDue(showTooltipDebounced)
  /\ showTooltipDebounced[1].args[2].component = "LocationTooltipContent"
  /\ showTooltipDebounced[1].args[2].locationInfo = [id |-> "A"]

\* nothing pending, no highlight and no tooltip
Quiet ==
  /\ highlightDebounced = Undefined
  /\ showTooltipDebounced = Undefined
  /\ state.highlight = Undefined
  /\ state.tooltip = Undefined

\* C30: in every state with the layer there, a hover without an object, or
\* with a pick other than FLOW and LOCATION, leaves no highlight, no tooltip and neither debounced call
\* pending; and from such a state highlight and tooltip stay undefined in every
\* step but a hover on an object.
C30_EmptyHoverClearsAll ==
  /\ [] ( dataset # Undefined =>
            \A info \in HoverInputs \ ObjectHovers :
              LET after == afterHover(info)
              IN  /\ after.state.highlight = Undefined
                  /\ after.state.tooltip = Undefined
                  /\ after.highlightDebounced = Undefined
                  /\ after.showTooltipDebounced = Undefined )
  /\ [][ Quiet => \/ state'.highlight = Undefined /\ state'.tooltip = Undefined
                  \/ \E info \in ObjectHovers : HandleHoverOf(info) ]_vars

\* a highlight is set and both debounced calls are pending, and a hover on
\* empty space from here leaves nothing of them
C30_Witness ==
  /\ dataset # Undefined
  /\ state.highlight # Undefined
  /\ highlightDebounced # Undefined
  /\ showTooltipDebounced # Undefined
  /\ LET h == handleHover(state, HoverOf(Undefined, Undefined), containerBounds,
                          highlightDebounced, showTooltipDebounced)
     IN  /\ h.highlightDebounced = Undefined
         /\ h.showTooltipDebounced = Undefined
         /\ dispatchAll(state, h.dispatched).highlight = Undefined
         /\ dispatchAll(state, h.dispatched).tooltip = Undefined

-----------------------------------------------------------------------------
(* The animation clock *)

ExpectedTime(frameTime) == Frac(frameTime.n % (90000 * frameTime.d), 50 * frameTime.d)

\* C27: for every frame time (none is negative) the time animate emits is
\* ((timestamp mod 90) / 90) * 1800 with timestamp = frame time / 1000, and
\* it is at least 0 and less than 1800; the time of the component always is.
C27_TimeInLoop ==
  /\ [] ( /\ FracLE(Num(0), time)
          /\ FracLT(time, Num(1800))
          /\ \A frameTime \in FrameTimeInputs :
               LET t == animate(frameTime, clock).time
               IN  /\ t = ExpectedTime(frameTime)
                   /\ FracLE(Num(0), t)
                   /\ FracLT(t, Num(1800)) )
  /\ [][ \A handle \in animationFrames, frameTime \in FrameTimeInputs :
           (mounted /\ AnimationFrameOf(handle, frameTime)) =>
             time' = ExpectedTime(frameTime) ]_vars

\* the frame at 180016 ms, in the third loop, has set the time to 0.32
C27_Witness ==
  /\ time = Frac(8, 25)
  /\ animate(Num(180016), clock).time = time

-----------------------------------------------------------------------------
(* Leaving the container *)

\* nothing of a tooltip: none shown and no show pending
NoTooltipToCome == state.tooltip = Undefined /\ showTooltipDebounced = Undefined

\* C31: in every state, whatever its highlight and tooltip, hideTooltip
\* dispatches what makes the state differ from the one before in state.tooltip
\* alone, which is undefined, and leaves no show pending; a mouse-leave step is
\* such a step; and from a state with no tooltip and no show pending every
\* step that is not a hover leads to a state with no tooltip and no show
\* pending, so no tooltip appears until a hover.
C31_MouseLeaveHidesTooltip ==
  /\ [] LET hide == hideTooltip(showTooltipDebounced)
        IN  /\ dispatchAll(state, hide.dispatched) = [state EXCEPT !.tooltip = Undefined]
            /\ hide.showTooltipDebounced = Undefined
  /\ [][ MouseLeave => /\ state' = [state EXCEPT !.tooltip = Undefined]
                       /\ NoTooltipToCome' ]_vars
  /\ [][ (NoTooltipToCome /\ ~HandleHover) => NoTooltipToCome' ]_vars

\* the pointer has left while flow A->B was highlighted: the highlight is
\* still there, the tooltip is not, and no show is pending
C31_Witness ==
  /\ NoTooltipToCome
  /\ state.highlight = Some(FlowHighlight("A", "B"))
  /\ highlightDebounced = Undefined

-----------------------------------------------------------------------------
(* The viewport fit *)

\* the viewports the fit effect can set
FitViewports == { fitViewport(draftZoom) : draftZoom \in DraftZoomInputs }

\* C32: in every state the reducer, given a SET_VIEWPORT action with
\* adjustViewportToLocations (true or false), yields a state whose flag is
\* false, and given one without it yields a state with the flag as it was; a
\* change of the view state by the user leaves the flag as it was, and so does
\* every step in which the locations stay the same; and when locations arrive
\* while the flag is true the viewport is fitted and the flag is false after.
C32_ViewportFlagOnlyClearedBySignal ==
  /\ [] \A action \in SetViewportActions :
          reducer(state, action).adjustViewportToLocations =
            IF action.adjustViewportToLocations # Undefined
              THEN FALSE ELSE state.adjustViewportToLocations
  /\ [][ ViewStateChange =>
           state'.adjustViewportToLocations = state.adjustViewportToLocations ]_vars
  /\ [][ dataset' = dataset =>
           state'.adjustViewportToLocations = state.adjustViewportToLocations ]_vars
  /\ [][ (state.adjustViewportToLocations /\ dataset' # dataset /\ dataset' # Undefined) =>
           /\ state'.viewport \in FitViewports
           /\ ~state'.adjustViewportToLocations ]_vars

\* the user has rotated and tilted the map before any locations are there:
\* the flag is still true, and the fit is dispatched when locations arrive
C32_Witness ==
  /\ dataset = Undefined
  /\ state.viewport.bearing = 30
  /\ state.viewport.pitch = 45
  /\ state.adjustViewportToLocations
  /\ viewportFitEffect(state, Some("D1"), Some(Num(4))) # << >>

\* C33: in every state the fit effect dispatches something only when
\* adjustViewportToLocations is true and locations are there, and what it
\* dispatches leaves the flag false; no action of the vocabulary, applied to a
\* state whose flag is false, yields a state whose flag is true; and while the
\* flag is false it stays false and a change of the locations changes nothing
\* of the state, so the fit is dispatched at most once.
C33_FitAtMostOnce ==
  /\ [] \A allLocations \in DatasetInputs, draftZoom \in DraftZoomInputs :
          LET fit == viewportFitEffect(state, allLocations, draftZoom)
          IN  fit # << >> =>
                /\ state.adjustViewportToLocations
                /\ allLocations # Undefined
                /\ Len(fit) = 1
                /\ fit[1].type = "SET_VIEWPORT"
                /\ ~dispatchAll(state, fit).adjustViewportToLocations
                /\ viewportFitEffect(dispatchAll(state, fit), allLocations, draftZoom)
                     = << >>
  /\ [] \A action \in Actions :
          ~state.adjustViewportToLocations =>
            ~reducer(state, action).adjustViewportToLocations
  /\ [][ ~state.adjustViewportToLocations =>
           /\ ~state'.adjustViewportToLocations
           /\ dataset' # dataset => state' = state ]_vars

\* the fit is done, the user has rotated the map since, and other locations
\* arriving now would not fit the viewport again
C33_Witness ==
  /\ dataset = Some("D1")
  /\ ~state.adjustViewportToLocations
  /\ state.viewport.bearing = 30
  /\ \A draftZoom \in DraftZoomInputs :
       viewportFitEffect(state, Some("D2"), draftZoom) = << >>

-----------------------------------------------------------------------------
(* Debounced calls and the actions that clear highlight and tooltip *)

\* a step that dispatches SET_VIEWPORT, ZOOM_IN, ZOOM_OUT or SELECT_LOCATION
\* and does nothing else
ClearingStep ==
  /\ \E action \in SetViewportActions \cup {ZoomInAction, ZoomOutAction}
                     \cup SelectLocationActions :
       Dispatch(action)
  /\ UNCHANGED <<dataset, debounceVars>>

\* C34: a step that dispatches SET_VIEWPORT, ZOOM_IN, ZOOM_OUT or
\* SELECT_LOCATION leaves highlight and tooltip undefined and neither
\* debounced call pending, so that no call made by a hover before it can run
\* after it; and from a state with no highlight, no tooltip and nothing
\* pending every step that is not a hover leads to such a state: highlight
\* and tooltip stay undefined until the next hover.
C34_ClearedUntilNextHover ==
  /\ [][ ClearingStep => Quiet' ]_vars
  /\ [][ (Quiet /\ ~HandleHover) => Quiet' ]_vars

-----------------------------------------------------------------------------
(* Progress of the zoom buttons *)

\* C35: in every reachable state with viewport.zoom < 20 the zoom after
\* ZOOM_IN is strictly larger than the zoom, and in every reachable state
\* with viewport.zoom > 0 the zoom after ZOOM_OUT is strictly smaller.
C35_ZoomButtonsMakeProgress ==
  /\ FracLT(state.viewport.zoom, Num(MAX_ZOOM_LEVEL)) =>
       FracLT(state.viewport.zoom, reducer(state, ZoomInAction).viewport.zoom)
  /\ FracLT(Num(MIN_ZOOM_LEVEL), state.viewport.zoom) =>
       FracLT(reducer(state, ZoomOutAction).viewport.zoom, state.viewport.zoom)

=============================================================================
